---- MODULE Spec2Model ----
(***************************************************************************)
(* Admission control of the B2B automation backend: the per-tenant rate   *)
(* limit, daily quotas and circuit breaker of BudgetEnforcer              *)
(* (backend/app/services/budget.py), kept in a Redis store shared by      *)
(* concurrently running workers.  Every Redis round trip is one atomic    *)
(* step of the worker that issues it; a method that makes several round   *)
(* trips is a sequence of steps that other workers and the clock may      *)
(* interleave with.                                                       *)
(***************************************************************************)
EXTENDS Integers, FiniteSets, Sequences, TLC

(***************************************************************************)
(* Bounds of the model.                                                   *)
(***************************************************************************)
MaxTime == 1050        \* the clock stops advancing at this many seconds
MaxCount == 3           \* cap on every usage counter
MaxFailures == 6        \* cap on the failures field of a circuit record
MaxChecks == 4          \* cap on the checks a caller makes in one minute bucket
MaxRaced == 5           \* cap on a usage counter incremented by racing intake requests
MaxLen == 4             \* longest model output, in tokens
MaxQuote == 6           \* largest of the small token counts that are priced

(***************************************************************************)
(* Program constants.                                                     *)
(***************************************************************************)
FAILURE_THRESHOLD == 5
CIRCUIT_TIMEOUT == 300
RATE_KEY_TTL == 120
DAY_KEY_TTL == 172800
MinuteSeconds == 60
DaySeconds == 86400

\* The clock moves in steps of half the circuit timeout, so that a check can
\* fall before, exactly at and after the timeout, and before the hash expires.
TickSeconds == CIRCUIT_TIMEOUT \div 2

Tenants == {"t1", "t2"}
Workers == {"w1", "w2"}

\* Quota profiles handed to BudgetEnforcer.__init__, one per tenant.
max_items_per_minute(t) == IF t = "t1" THEN 2 ELSE 1
max_runs_per_day(t) == IF t = "t1" THEN 2 ELSE 3
max_tokens_per_day(t) == IF t = "t1" THEN 3 ELSE 2

\* Values of the estimated_tokens argument and of add_daily_tokens' argument.
TokenArgs == {0, 1, 2}

VARIABLES
    now,        \* time.time(), in seconds
    circuit,    \* circuit[t]: the Redis hash circuit:{t}
    rate,       \* rate[t][m]: the Redis key rate:{t}:items:{minute m}
    runs,       \* runs[t][d]: the Redis key budget:{t}:runs:{day d}
    tokens,     \* tokens[t][d]: the Redis key budget:{t}:tokens:{day d}
    tenant,     \* tenant[w]: tenant_id of the enforcer worker w calls
    pc,         \* pc[w]: where worker w is inside its current call
    local,      \* local[w]: `failures` of record_failure, estimated_tokens of check_all
    last,       \* the call that ended last: who made it, which method, how it
                \* ended, and the circuit state its last round trip found
    checks,     \* the admission checks a checking-then-incrementing caller made
                \* in the current minute bucket (see caller_check)
    run,        \* the Run row of the unit of work
    rec,        \* the Ticket or Lead row the workflow writes to
    fresh,      \* what the current attempt's outputs make of a fresh row
    audit,      \* the audit entries written by the current attempt, oldest first
    job,        \* the queued job, the tenant's settings it runs under and
                \* the worker's position in it
    call,       \* the ModelRouter of worker w1: its settings, the route()
                \* call in progress and what that call did and returned
    quote       \* the arguments of an estimate_cost call and what it returned

vars == <<now, circuit, rate, runs, tokens, tenant, pc, local, last, checks,
          run, rec, fresh, audit, job, call, quote>>
store == <<circuit, rate, runs, tokens>>
\* The database rows and the job queue of the workflow runner.
work == <<run, rec, fresh, audit, job, call, quote>>

(***************************************************************************)
(* The Redis store.  A missing hash field is "none" (state), 0 (failures) *)
(* or -1 (opened_at); exp = -1 is a key with no time to live.  A string   *)
(* key that does not exist is [n |-> 0, exp |-> -1].                      *)
(***************************************************************************)
NoHash == [state |-> "none", failures |-> 0, opened_at |-> -1, exp |-> -1]
NoKey == [n |-> 0, exp |-> -1]

HExists(h) == h.state # "none" \/ h.failures # 0 \/ h.opened_at # -1

Minutes == 0 .. (MaxTime \div MinuteSeconds)
Days == 0 .. (MaxTime \div DaySeconds)

\* strftime("%Y%m%d%H%M") of utcnow(): the minute bucket of the clock.
_minute_key(t_now) == t_now \div MinuteSeconds
\* date.today().isoformat(): the day bucket of the clock.
_day_key(t_now) == t_now \div DaySeconds

\* HINCRBY key failures 1: creates the hash and the field when missing.
HIncrBy(h) == [h EXCEPT !.failures = @ + 1]
\* EXPIRE key ttl: no effect on a key that does not exist.
HExpire(h, ttl) == IF HExists(h) THEN [h EXCEPT !.exp = now + ttl] ELSE h
\* (mutant) the half-open state is not written to the store.
HSetState_lost(h, s) == h
\* HSET key state half-open: creates the hash when missing, keeps the TTL.
HSetState(h, s) == [h EXCEPT !.state = s]
\* (mutant) the circuit is opened without a timestamp.
HSetOpen_untimed(h) == [h EXCEPT !.state = "open"]
\* HSET key mapping={state: open, opened_at: str(time.time())}; str() of a
\* float is its repr, which float() reads back to the same number.
HSetOpen(h) == [h EXCEPT !.state = "open", !.opened_at = now]

\* data.get("state", "closed")
StateOf(h) == IF h.state = "none" THEN "closed" ELSE h.state
\* float(data.get("opened_at", 0))
OpenedAtOf(h) == IF h.opened_at = -1 THEN 0 ELSE h.opened_at

\* int(self.r.get(key) or 0)
Get(k) == k.n
\* (mutant) the pipeline sets the counter instead of incrementing it.
IncrExpire_set(k, by, ttl) == [n |-> by, exp |-> now + ttl]
\* pipeline: INCRBY key by; EXPIRE key ttl; execute (one MULTI/EXEC).
\* (mutant) the key lives a quarter of the time it is given.
IncrExpire_short(k, by, ttl) == [n |-> k.n + by, exp |-> now + ttl \div 4]
IncrExpire(k, by, ttl) == [n |-> k.n + by, exp |-> now + ttl]

Expired(exp, t_now) == exp # -1 /\ exp <= t_now

TypeOK ==
    /\ now \in 0 .. MaxTime
    /\ \A t \in Tenants :
        /\ circuit[t].state \in {"none", "open", "half-open"}
        /\ circuit[t].failures \in 0 .. MaxFailures
        /\ circuit[t].opened_at \in -1 .. MaxTime
        /\ \A m \in Minutes : rate[t][m].n \in 0 .. MaxRaced
        /\ \A d \in Days : runs[t][d].n \in 0 .. MaxRaced /\ tokens[t][d].n \in 0 .. MaxCount
    /\ tenant \in [Workers -> Tenants \cup {"none"}]

\* The state and failure count of a circuit hash, as a caller sees them.
Seen(h) == [state |-> StateOf(h), failures |-> h.failures]

NoCall == [w |-> "none", call |-> "none", outcome |-> "none", seen |-> Seen(NoHash)]
NoChecks == [n |-> 0, carried |-> FALSE]

\* No unit of work: no rows, no audit entry, no job.
NoRun == [status |-> "none", current_step |-> "none", error_len |-> -1, steps |-> <<>>]
NoJob == [wf |-> "none", state |-> "none", left |-> 0, pc |-> "none", out |-> <<>>,
          exc |-> -1, steps |-> <<>>, attempt |-> 0, autosend |-> FALSE, crm |-> FALSE]

\* No call of estimate_cost: cost -1 is a cost not computed.
NoQuote == [input_tokens |-> 0, output_tokens |-> 0, model |-> "none", cost |-> -1]

\* No enforcer call in progress and no cost estimated.
InitEnforcers ==
    /\ pc = [w \in Workers |-> "idle"]
    /\ local = [w \in Workers |-> 0]
    /\ last = NoCall
    /\ checks = NoChecks
    /\ quote = NoQuote

\* No router result.
NoResult == [content |-> <<>>, model |-> "none", tokens |-> 0, cost |-> -1]
\* The credential settings a router is constructed with: the tenant's
\* anthropic_key_encrypted (none, one decrypt_value rejects, one it accepts),
\* settings.platform_key_mode and whether settings.platform_anthropic_key
\* is a non-empty string.
NoCredential == [encrypted |-> "none", platform_key_mode |-> FALSE, platform_key |-> FALSE]
TenantCredential == [NoCredential EXCEPT !.encrypted = "good"]
Credentials ==
    [encrypted : {"none", "bad", "good"}, platform_key_mode : BOOLEAN, platform_key : BOOLEAN]

\* (mutant) a key that cannot be decrypted is used as it is.
ModelRouter_init_undecrypted(c) ==
    c.encrypted # "none" \/ (c.platform_key_mode /\ c.platform_key)
\* ModelRouter.__init__: whether self._anthropic_key is set after the
\* resolution, the tenant's own key first and the platform key second.
ModelRouter_init(c) ==
    c.encrypted = "good" \/ (c.platform_key_mode /\ c.platform_key)

\* A router that is not in use.
NoRoute == [cred |-> NoCredential, key |-> FALSE, local_enabled |-> FALSE, task |-> "none", stage |-> "idle",
            admitted |-> FALSE, max_tokens |-> 0, model |-> "none", cloud |-> <<>>,
            before |-> 0, exc |-> "none", result |-> NoResult]

\* No unit of work and no router call.
InitWork ==
    /\ run = NoRun
    /\ rec = <<>>
    /\ fresh = <<>>
    /\ audit = <<>>
    /\ job = NoJob

InitWorkers ==
    /\ InitEnforcers
    /\ InitWork
    /\ call = NoRoute

\* The empty Redis store at time 0.
InitRedis ==
    /\ now = 0
    /\ circuit = [t \in Tenants |-> NoHash]
    /\ rate = [t \in Tenants |-> [m \in Minutes |-> NoKey]]
    /\ runs = [t \in Tenants |-> [d \in Days |-> NoKey]]
    /\ tokens = [t \in Tenants |-> [d \in Days |-> NoKey]]

\* The store and the workers before the first request.
InitStore == InitRedis /\ InitWorkers

\* Two workers serving the same tenant.
Init == InitStore /\ tenant = [w \in Workers |-> "t1"]

\* One worker alone.
InitSeq == InitStore /\ tenant = [w \in Workers |-> IF w = "w1" THEN "t1" ELSE "none"]

\* One worker alone, serving either tenant.
InitOne == InitStore /\ \E t \in Tenants : tenant = [w \in Workers |-> IF w = "w1" THEN t ELSE "none"]

\* One worker for each tenant.
InitTenants == InitStore /\ tenant = [w \in Workers |-> IF w = "w1" THEN "t1" ELSE "t2"]

\* A day counter that was incremented to n at time 0.
Counted(n) == IF n = 0 THEN NoKey ELSE [n |-> n, exp |-> DAY_KEY_TTL]

\* One worker alone, serving either tenant, on a day whose run and token
\* counters already stand at any value up to the cap.
InitDay ==
    /\ now = 0
    /\ circuit = [t \in Tenants |-> NoHash]
    /\ rate = [t \in Tenants |-> [m \in Minutes |-> NoKey]]
    /\ \E t \in Tenants, r \in 0 .. MaxCount, k \in 0 .. MaxCount :
        /\ tenant = [w \in Workers |-> IF w = "w1" THEN t ELSE "none"]
        /\ runs = [u \in Tenants |-> [d \in Days |-> IF u = t /\ d = 0 THEN Counted(r) ELSE NoKey]]
        /\ tokens = [u \in Tenants |-> [d \in Days |-> IF u = t /\ d = 0 THEN Counted(k) ELSE NoKey]]
    /\ InitWorkers

\* Worker w serves a tenant and is between two calls.
Idle(w) == tenant[w] \in Tenants /\ pc[w] = "idle"

\* The call `name` of worker w returns (r = "ok") or raises r.
Return(w, name, r) ==
    /\ pc' = [pc EXCEPT ![w] = "idle"]
    /\ local' = [local EXCEPT ![w] = 0]
    /\ last' = [w |-> w, call |-> name, outcome |-> r, seen |-> Seen(circuit[tenant[w]])]
    /\ UNCHANGED work

\* Worker w goes on to its next round trip, keeping v in a local variable.
Goto(w, label, v) ==
    /\ pc' = [pc EXCEPT ![w] = label]
    /\ local' = [local EXCEPT ![w] = v]
    /\ UNCHANGED <<last, work>>

(***************************************************************************)
(* Circuit breaker.                                                       *)
(***************************************************************************)
\* (mutant) the circuit already moves to half-open at exactly the timeout.
CircuitDecision_ge(h) ==
    IF ~HExists(h) THEN "pass"
    ELSE IF StateOf(h) = "open"
         THEN IF now - OpenedAtOf(h) >= CIRCUIT_TIMEOUT THEN "half-open" ELSE "raise"
         ELSE "pass"

\* What check_circuit_breaker makes of the hash it read: "pass" (return),
\* "half-open" (write the state, then return) or "raise" (CircuitOpenError).
CircuitDecision(h) ==
    IF ~HExists(h) THEN "pass"
    ELSE IF StateOf(h) = "open"
         THEN IF now - OpenedAtOf(h) > CIRCUIT_TIMEOUT THEN "half-open" ELSE "raise"
         ELSE "pass"

\* check_circuit_breaker, first round trip: HGETALL and the decision on it.
check_circuit_breaker(w) ==
    /\ Idle(w)
    /\ LET d == CircuitDecision(circuit[tenant[w]]) IN
        CASE d = "pass" -> Return(w, "check_circuit_breaker", "ok")
          [] d = "half-open" -> Goto(w, "cb_hset", 0)
          [] d = "raise" -> Return(w, "check_circuit_breaker", "CircuitOpen")
    /\ UNCHANGED <<now, store, tenant, checks>>

\* check_circuit_breaker, second round trip: HSET state half-open, return.
check_circuit_breaker_hset(w) ==
    /\ pc[w] = "cb_hset"
    /\ circuit' = [circuit EXCEPT ![tenant[w]] = HSetState(@, "half-open")]
    /\ Return(w, "check_circuit_breaker", "ok")
    /\ UNCHANGED <<now, rate, runs, tokens, tenant, checks>>

\* (mutant) the circuit opens only once the threshold is exceeded.
ThresholdReached_gt(failures) == failures > FAILURE_THRESHOLD
\* failures >= self.FAILURE_THRESHOLD
ThresholdReached(failures) == failures >= FAILURE_THRESHOLD

\* record_failure, first round trip: failures = HINCRBY key failures 1.
record_failure(w) ==
    /\ Idle(w)
    /\ circuit[tenant[w]].failures < MaxFailures
    /\ circuit' = [circuit EXCEPT ![tenant[w]] = HIncrBy(@)]
    /\ Goto(w, "rf_expire", circuit[tenant[w]].failures + 1)
    /\ UNCHANGED <<now, rate, runs, tokens, tenant, checks>>

\* record_failure, second round trip: EXPIRE key 600; return unless the
\* threshold is reached.
record_failure_expire(w) ==
    /\ pc[w] = "rf_expire"
    /\ circuit' = [circuit EXCEPT ![tenant[w]] = HExpire(@, CIRCUIT_TIMEOUT * 2)]
    /\ IF ThresholdReached(local[w])
       THEN Goto(w, "rf_hset", local[w])
       ELSE Return(w, "record_failure", "ok")
    /\ UNCHANGED <<now, rate, runs, tokens, tenant, checks>>

\* record_failure, third round trip: HSET state open, opened_at now.
record_failure_hset(w) ==
    /\ pc[w] = "rf_hset"
    /\ circuit' = [circuit EXCEPT ![tenant[w]] = HSetOpen(@)]
    /\ Return(w, "record_failure", "ok")
    /\ UNCHANGED <<now, rate, runs, tokens, tenant, checks>>

\* (mutant) success only writes the state back to closed.
record_success_state_only(w) ==
    /\ Idle(w)
    /\ circuit' = [circuit EXCEPT ![tenant[w]] = [@ EXCEPT !.state = "none", !.opened_at = -1]]
    /\ Return(w, "record_success", "ok")
    /\ UNCHANGED <<now, rate, runs, tokens, tenant, checks>>

\* (mutant) success leaves a circuit that is closed alone.
record_success_unless_closed(w) ==
    /\ Idle(w)
    /\ circuit' = [circuit EXCEPT ![tenant[w]] = IF StateOf(@) = "closed" THEN @ ELSE NoHash]
    /\ Return(w, "record_success", "ok")
    /\ UNCHANGED <<now, rate, runs, tokens, tenant, checks>>

\* record_success: DEL key.
record_success(w) ==
    /\ Idle(w)
    /\ circuit' = [circuit EXCEPT ![tenant[w]] = NoHash]
    /\ Return(w, "record_success", "ok")
    /\ UNCHANGED <<now, rate, runs, tokens, tenant, checks>>

(***************************************************************************)
(* Usage counters.                                                        *)
(***************************************************************************)
\* (mutant) the minute key is built without the tenant id.
RateKey_shared(t) == rate["t1"][_minute_key(now)]
RateKey(t) == rate[t][_minute_key(now)]
RunsKey(t) == runs[t][_day_key(now)]
TokensKey(t) == tokens[t][_day_key(now)]

\* The conditions under which the three quota checks raise.
\* (mutant) the rate limit admits a counter that stands exactly at the limit.
RateExceeded_gt(t) == Get(RateKey(t)) > max_items_per_minute(t)
\* (mutant) the rate limit is not enforced.
RateExceeded_off(t) == FALSE
RateExceeded(t) == Get(RateKey(t)) >= max_items_per_minute(t)
RunsExceeded(t) == Get(RunsKey(t)) >= max_runs_per_day(t)
\* (mutant) the token budget denies a request that would exactly use it up.
TokensExceeded_ge(t, e) == Get(TokensKey(t)) + e >= max_tokens_per_day(t)
TokensExceeded(t, e) == Get(TokensKey(t)) + e > max_tokens_per_day(t)

\* check_rate_limit: GET of the minute key and the comparison.
RateCheck(w) ==
    /\ Idle(w)
    /\ Return(w, "check_rate_limit", IF RateExceeded(tenant[w]) THEN "rate_limit" ELSE "ok")
    /\ UNCHANGED <<now, store, tenant>>

\* increment_rate: INCR and EXPIRE of the minute key in one pipeline.
RateIncrement(w) ==
    /\ Idle(w)
    /\ Get(RateKey(tenant[w])) < MaxCount
    /\ rate' = [rate EXCEPT ![tenant[w]][_minute_key(now)] = IncrExpire(@, 1, RATE_KEY_TTL)]
    /\ Return(w, "increment_rate", "ok")
    /\ UNCHANGED <<now, circuit, runs, tokens, tenant>>

check_rate_limit(w) == RateCheck(w) /\ UNCHANGED checks

increment_rate(w) == RateIncrement(w) /\ UNCHANGED checks

\* A caller that increments after each successful check and at no other
\* time (the intake's use of the rate limit): its checks in the current
\* minute bucket are counted, and an increment that lands in a bucket
\* later than its check is noted.
Owes(w) == last.w = w /\ last.call = "check_rate_limit" /\ last.outcome = "ok"

caller_check(w) ==
    /\ ~Owes(w)
    /\ checks.n < MaxChecks
    /\ RateCheck(w)
    /\ checks' = [checks EXCEPT !.n = @ + 1]

caller_increment(w) ==
    /\ Owes(w)
    /\ RateIncrement(w)
    /\ checks' = [checks EXCEPT !.carried = @ \/ checks.n = 0]

check_daily_runs(w) ==
    /\ Idle(w)
    /\ Return(w, "check_daily_runs", IF RunsExceeded(tenant[w]) THEN "daily_runs" ELSE "ok")
    /\ UNCHANGED <<now, store, tenant, checks>>

increment_daily_runs(w) ==
    /\ Idle(w)
    /\ Get(RunsKey(tenant[w])) < MaxCount
    /\ runs' = [runs EXCEPT ![tenant[w]][_day_key(now)] = IncrExpire(@, 1, DAY_KEY_TTL)]
    /\ Return(w, "increment_daily_runs", "ok")
    /\ UNCHANGED <<now, circuit, rate, tokens, tenant, checks>>

check_daily_tokens(w, e) ==
    /\ Idle(w)
    /\ Return(w, "check_daily_tokens",
              IF TokensExceeded(tenant[w], e) THEN "daily_tokens" ELSE "ok")
    /\ UNCHANGED <<now, store, tenant, checks>>

add_daily_tokens(w, n) ==
    /\ Idle(w)
    /\ Get(TokensKey(tenant[w])) + n <= MaxCount
    /\ tokens' = [tokens EXCEPT ![tenant[w]][_day_key(now)] = IncrExpire(@, n, DAY_KEY_TTL)]
    /\ Return(w, "add_daily_tokens", "ok")
    /\ UNCHANGED <<now, circuit, rate, runs, tenant, checks>>

\* get_usage: GET of the day's two keys.
get_usage(w) ==
    /\ Idle(w)
    /\ Return(w, "get_usage", [runs_today |-> Get(RunsKey(tenant[w])),
                               tokens_today |-> Get(TokensKey(tenant[w]))])
    /\ UNCHANGED <<now, store, tenant, checks>>

(***************************************************************************)
(* check_all(estimated_tokens): the four checks, one round trip after the *)
(* other (two for a circuit check that writes half-open).                 *)
(***************************************************************************)
check_all(w, e) ==
    /\ Idle(w)
    /\ LET d == CircuitDecision(circuit[tenant[w]]) IN
        CASE d = "pass" -> Goto(w, "ca_rate", e)
          [] d = "half-open" -> Goto(w, "ca_hset", e)
          [] d = "raise" -> Return(w, "check_all", "CircuitOpen")
    /\ UNCHANGED <<now, store, tenant, checks>>

check_all_hset(w) ==
    /\ pc[w] = "ca_hset"
    /\ circuit' = [circuit EXCEPT ![tenant[w]] = HSetState(@, "half-open")]
    /\ Goto(w, "ca_rate", local[w])
    /\ UNCHANGED <<now, rate, runs, tokens, tenant, checks>>

check_all_rate(w) ==
    /\ pc[w] = "ca_rate"
    /\ IF RateExceeded(tenant[w])
       THEN Return(w, "check_all", "rate_limit")
       ELSE Goto(w, "ca_runs", local[w])
    /\ UNCHANGED <<now, store, tenant, checks>>

check_all_runs(w) ==
    /\ pc[w] = "ca_runs"
    /\ IF RunsExceeded(tenant[w])
       THEN Return(w, "check_all", "daily_runs")
       ELSE Goto(w, "ca_tokens", local[w])
    /\ UNCHANGED <<now, store, tenant, checks>>

check_all_tokens(w) ==
    /\ pc[w] = "ca_tokens"
    /\ Return(w, "check_all",
              IF TokensExceeded(tenant[w], local[w]) THEN "daily_tokens" ELSE "ok")
    /\ UNCHANGED <<now, store, tenant, checks>>

(***************************************************************************)
(* The intake handlers (ingest_support_ticket, ingest_lead): check_all()   *)
(* with no estimate, the database commit, the enqueue and then the two    *)
(* increments, with no lock around them.  The handler runs check_all's    *)
(* round trips as above up to the last one, which it continues from.      *)
(***************************************************************************)
\* Last round trip of the handler's check_all(): 429 on a violation,
\* otherwise on to the commit and the enqueue.
intake_check_tokens(w) ==
    /\ pc[w] = "ca_tokens"
    /\ IF TokensExceeded(tenant[w], local[w])
       THEN Return(w, "check_all", "daily_tokens")
       ELSE Goto(w, "in_enqueue", 0)
    /\ UNCHANGED <<now, store, tenant, checks>>

\* q.enqueue(...): on success the handler goes on to the increments, on an
\* exception it logs the error and answers without incrementing.
intake_enqueue(w) ==
    /\ pc[w] = "in_enqueue"
    /\ \/ Goto(w, "in_rate", 0)
       \/ Return(w, "ingest", "ok")
    /\ UNCHANGED <<now, store, tenant, checks>>

\* enforcer.increment_rate() of the handler.
intake_increment_rate(w) ==
    /\ pc[w] = "in_rate"
    /\ Get(RateKey(tenant[w])) < MaxRaced
    /\ rate' = [rate EXCEPT ![tenant[w]][_minute_key(now)] = IncrExpire(@, 1, RATE_KEY_TTL)]
    /\ Goto(w, "in_runs", 0)
    /\ UNCHANGED <<now, circuit, runs, tokens, tenant, checks>>

\* enforcer.increment_daily_runs() of the handler, and its answer.
intake_increment_daily_runs(w) ==
    /\ pc[w] = "in_runs"
    /\ Get(RunsKey(tenant[w])) < MaxRaced
    /\ runs' = [runs EXCEPT ![tenant[w]][_day_key(now)] = IncrExpire(@, 1, DAY_KEY_TTL)]
    /\ Return(w, "ingest", "ok")
    /\ UNCHANGED <<now, circuit, rate, tokens, tenant, checks>>

(***************************************************************************)
(* Model output and the steps that apply it to the Ticket or Lead row      *)
(* (workers/support_triage.py, workers/lead_qualify.py).  The content of a *)
(* router result is a string, here a sequence of the tokens "{", "}", "x"  *)
(* (text that is not JSON) and the names of JSON member lists.  Scores and *)
(* confidences are in hundredths; -1 is None.                              *)
(***************************************************************************)
Members == {"m1", "m2", "fd"}
Tokens == {"{", "}", "x"} \cup Members

\* Every content of at most MaxLen tokens.
Contents == UNION {[1 .. n -> Tokens] : n \in 0 .. MaxLen}

\* A key the model left out of its JSON object.
Absent == "absent"
AbsentNum == -1

\* The JSON object with no member.
EmptyObject ==
    [category |-> Absent, priority |-> Absent, sentiment |-> Absent,
     suggested_team |-> Absent, needs_human |-> Absent, confidence |-> AbsentNum,
     draft_reply |-> Absent, internal_notes |-> Absent, recommended_action |-> Absent,
     follow_up_questions |-> Absent, company_size_cue |-> Absent,
     intent_classification |-> Absent, urgency |-> Absent, industry |-> Absent,
     spam_score |-> AbsentNum, qualification_summary |-> Absent, score |-> AbsentNum,
     suggested_next_step |-> Absent, emails |-> Absent, name |-> "{}"]

\* The JSON objects a member list stands for: m1 answers every key, with a
\* confident classification and a spam score just above the gate; m2 leaves
\* most keys out, with a low confidence and a spam score exactly at the
\* gate; fd is the router's static default payload.
JsonObject(m) ==
    IF m = "fd"
    THEN [EmptyObject EXCEPT !.category = "general", !.priority = "medium",
                             !.sentiment = "neutral", !.suggested_team = "general",
                             !.needs_human = "true", !.confidence = 0, !.name = "fd"]
    ELSE IF m = "m1"
    THEN [category |-> "billing", priority |-> "high", sentiment |-> "negative",
          suggested_team |-> "billing", needs_human |-> "false", confidence |-> 90,
          draft_reply |-> "reply", internal_notes |-> "notes",
          recommended_action |-> "escalate", follow_up_questions |-> "questions",
          company_size_cue |-> "smb", intent_classification |-> "demo",
          urgency |-> "high", industry |-> "finance", spam_score |-> 81,
          qualification_summary |-> "summary", score |-> 70,
          suggested_next_step |-> "call", emails |-> "emails", name |-> "m1"]
    ELSE [EmptyObject EXCEPT !.category = "technical", !.confidence = 40,
                             !.spam_score = 80, !.score = 30, !.name = "m2"]

\* "{" in content
HasToken(c, ch) == \E i \in 1 .. Len(c) : c[i] = ch
\* content.index(ch), for a content that holds ch
Index(c, ch) == CHOOSE i \in 1 .. Len(c) : c[i] = ch /\ \A j \in 1 .. i - 1 : c[j] # ch
\* content.rindex(ch), for a content that holds ch
RIndex(c, ch) == CHOOSE i \in 1 .. Len(c) : c[i] = ch /\ \A j \in i + 1 .. Len(c) : c[j] # ch

\* json.loads(json_str): an object, or JSONDecodeError.
JsonLoads(str) ==
    IF str = <<"{", "}">> THEN [exc |-> "none", data |-> EmptyObject]
    ELSE IF Len(str) = 3 /\ str[1] = "{" /\ str[3] = "}" /\ str[2] \in Members
         THEN [exc |-> "none", data |-> JsonObject(str[2])]
         ELSE [exc |-> "JSONDecodeError", data |-> EmptyObject]

\* The lines shared by the five apply functions: the test for a brace, the
\* slice from the first "{" to the last "}" and json.loads of it.  kind is
\* "text" (no brace), "object" or "except" (an exception was raised).
ParseContent(c) ==
    IF ~HasToken(c, "{") THEN [kind |-> "text", exc |-> "none", data |-> EmptyObject]
    ELSE IF ~HasToken(c, "}") THEN [kind |-> "except", exc |-> "ValueError", data |-> EmptyObject]
    ELSE LET loaded == JsonLoads(SubSeq(c, Index(c, "{"), RIndex(c, "}"))) IN
         IF loaded.exc = "none"
         THEN [kind |-> "object", exc |-> "none", data |-> loaded.data]
         ELSE [kind |-> "except", exc |-> loaded.exc, data |-> EmptyObject]

\* (mutant) the handler catches the decoder's error only.
Caught_decode_only(exc) == exc = "JSONDecodeError"
\* except (json.JSONDecodeError, ValueError)
Caught(exc) == exc \in {"JSONDecodeError", "ValueError"}

\* data.get(key, default)
GetOr(v, default) == IF v = Absent THEN default ELSE v
GetNum(v, default) == IF v = AbsentNum THEN default ELSE v

\* The Ticket row as intake creates it.
NewTicket ==
    [status |-> "new", category |-> "null", priority |-> "null", sentiment |-> "null",
     suggested_team |-> "null", needs_human |-> "null", classification_confidence |-> -1,
     classification_raw |-> "null", draft_reply |-> "null", internal_notes |-> "null",
     recommended_action |-> "null", follow_up_questions |-> "null",
     assigned_team |-> "null", tags |-> "null", reply_sent |-> FALSE]

\* The Lead row as intake creates it.
NewLead ==
    [status |-> "new", company_size_cue |-> "null", intent_classification |-> "null",
     urgency |-> "null", industry |-> "null", spam_score |-> -1,
     extraction_confidence |-> -1, extraction_raw |-> "null",
     qualification_summary |-> "null", score |-> -1, follow_up_questions |-> "null",
     suggested_next_step |-> "null", email_drafts |-> "null"]

\* What an apply function did: it raised, or it wrote the row.
Applied(row) == [raised |-> FALSE, row |-> row]
Raised(row) == [raised |-> TRUE, row |-> row]

\* The neutral values _apply_classification writes when it cannot parse.
ClassificationDefaults(t) ==
    [t EXCEPT !.category = "general", !.priority = "medium", !.needs_human = "true",
              !.classification_confidence = 0]

_apply_classification(t, c) ==
    LET p == ParseContent(c) d == p.data IN
    IF p.kind = "object"
    THEN Applied([t EXCEPT !.category = GetOr(d.category, "general"),
                           !.priority = GetOr(d.priority, "medium"),
                           !.sentiment = GetOr(d.sentiment, "neutral"),
                           !.suggested_team = GetOr(d.suggested_team, "support"),
                           !.needs_human = GetOr(d.needs_human, "true"),
                           !.classification_confidence = GetNum(d.confidence, 50),
                           !.classification_raw = d.name])
    ELSE IF p.kind = "text" \/ Caught(p.exc) THEN Applied(ClassificationDefaults(t))
    ELSE Raised(t)

\* What _apply_draft writes when it cannot parse: the content as the reply.
DraftDefaults(t) == [t EXCEPT !.draft_reply = "content", !.recommended_action = "respond"]

_apply_draft(t, c) ==
    LET p == ParseContent(c) d == p.data IN
    IF p.kind = "object"
    THEN Applied([t EXCEPT !.draft_reply = GetOr(d.draft_reply, "content"),
                           !.internal_notes = GetOr(d.internal_notes, ""),
                           !.recommended_action = GetOr(d.recommended_action, "respond"),
                           !.follow_up_questions = GetOr(d.follow_up_questions, "[]")])
    ELSE IF p.kind = "text" \/ Caught(p.exc) THEN Applied(DraftDefaults(t))
    ELSE Raised(t)

ExtractionDefaults(l) ==
    [l EXCEPT !.company_size_cue = "unknown", !.intent_classification = "general",
              !.urgency = "medium", !.spam_score = 0, !.extraction_confidence = 0]

_apply_extraction(l, c) ==
    LET p == ParseContent(c) d == p.data IN
    IF p.kind = "object"
    THEN Applied([l EXCEPT !.company_size_cue = GetOr(d.company_size_cue, "unknown"),
                           !.intent_classification = GetOr(d.intent_classification, "general"),
                           !.urgency = GetOr(d.urgency, "medium"),
                           !.industry = GetOr(d.industry, "other"),
                           !.spam_score = GetNum(d.spam_score, 0),
                           !.extraction_confidence = GetNum(d.confidence, 50),
                           !.extraction_raw = d.name])
    ELSE IF p.kind = "text" \/ Caught(p.exc) THEN Applied(ExtractionDefaults(l))
    ELSE Raised(l)

QualificationDefaults(l) ==
    [l EXCEPT !.qualification_summary = "content", !.score = 50, !.suggested_next_step = "email"]

_apply_qualification(l, c) ==
    LET p == ParseContent(c) d == p.data IN
    IF p.kind = "object"
    THEN Applied([l EXCEPT !.qualification_summary = GetOr(d.qualification_summary, ""),
                           !.score = GetNum(d.score, 50),
                           !.follow_up_questions = GetOr(d.follow_up_questions, "[]"),
                           !.suggested_next_step = GetOr(d.suggested_next_step, "email")])
    ELSE IF p.kind = "text" \/ Caught(p.exc) THEN Applied(QualificationDefaults(l))
    ELSE Raised(l)

EmailDraftDefaults(l) == [l EXCEPT !.email_drafts = "follow-up with content"]

_apply_email_drafts(l, c) ==
    LET p == ParseContent(c) d == p.data IN
    IF p.kind = "object"
    THEN Applied([l EXCEPT !.email_drafts = GetOr(d.emails, "[]")])
    ELSE IF p.kind = "text" \/ Caught(p.exc) THEN Applied(EmailDraftDefaults(l))
    ELSE Raised(l)

\* The apply functions by name, and the row each of them writes to.
ApplyNames == {"_apply_classification", "_apply_draft", "_apply_extraction",
               "_apply_qualification", "_apply_email_drafts"}
TicketApply == {"_apply_classification", "_apply_draft"}

Apply(name, row, c) ==
    CASE name = "_apply_classification" -> _apply_classification(row, c)
      [] name = "_apply_draft" -> _apply_draft(row, c)
      [] name = "_apply_extraction" -> _apply_extraction(row, c)
      [] name = "_apply_qualification" -> _apply_qualification(row, c)
      [] name = "_apply_email_drafts" -> _apply_email_drafts(row, c)

Defaults(name, row) ==
    CASE name = "_apply_classification" -> ClassificationDefaults(row)
      [] name = "_apply_draft" -> DraftDefaults(row)
      [] name = "_apply_extraction" -> ExtractionDefaults(row)
      [] name = "_apply_qualification" -> QualificationDefaults(row)
      [] name = "_apply_email_drafts" -> EmailDraftDefaults(row)

\* One apply function called on a router result whose content is any string
\* and on a row as intake created it.
InitApply ==
    /\ InitRedis
    /\ InitEnforcers
    /\ tenant = [w \in Workers |-> "none"]
    /\ run = NoRun
    /\ rec = <<>>
    /\ fresh = <<>>
    /\ audit = <<>>
    /\ call = NoRoute
    /\ \E name \in ApplyNames, c \in Contents : job = [NoJob EXCEPT !.pc = name, !.out = c]

\* The call of the apply function: it returns, having written the row and
\* committed, or raises.
apply_call ==
    /\ job.pc \in ApplyNames
    /\ LET a == Apply(job.pc, IF job.pc \in TicketApply THEN NewTicket ELSE NewLead, job.out) IN
        /\ rec' = a.row
        /\ job' = [job EXCEPT !.pc = IF a.raised THEN "raised" ELSE "returned",
                              !.steps = <<job.pc>>]
    /\ UNCHANGED <<now, store, tenant, pc, local, last, checks, run, fresh, audit, call, quote>>

(***************************************************************************)
(* The workflow runner: intake creates the Run and the row and enqueues    *)
(* the job; a worker runs process_support_ticket or process_lead on it,    *)
(* and the job queue runs a job that raised again, from the top, while it  *)
(* has retries left.  An action is the code from one external call (the    *)
(* router, Slack, the CRM) up to the next one; an exception is handled in  *)
(* the action that raises it.  Database statements are taken to succeed.   *)
(***************************************************************************)
RETRY_MAX == 3
ERROR_MESSAGE_MAX == 1000
SUMMARY_MAX == 500
SPAM_GATE == 80
DEFAULT_CONFIDENCE_THRESHOLD == 85
DEFAULT_ESCALATE_BELOW == 50

Workflows == {"support", "lead"}

\* The contents the router returns in a workflow run: a complete object, a
\* sparse one, plain text, and an opening brace that is never closed.
Outputs == {<<"{", "m1", "}">>, <<"{", "m2", "}">>, <<"x">>, <<"{", "x">>}

\* The static payload of _local_model_fallback.
DefaultResult ==
    [content |-> <<"{", "fd", "}">>, model |-> "fallback_default", tokens |-> 0, cost |-> 0]

\* The contents route() returns for a task of the local set: those of a
\* backend, or the static payload when no backend is available.
LocalOutputs == Outputs \cup {DefaultResult.content}

\* len(str(e)) of the exceptions a router call raises: shorter than both
\* limits, between them, longer than both.
ErrLens == {40, 750, 1200}
\* len(str(e)) of the TypeError of an unexpected keyword argument.
TypeErrorLen == 66

\* (mutant) the string is not cut.
Truncate_off(len, n) == len
\* s[:n], on lengths
Truncate(len, n) == IF len > n THEN n ELSE len

\* What the runner's own steps leave alone: the enforcer and the router.
budget == <<now, circuit, rate, runs, tokens, tenant, pc, local, last, checks, call, quote>>

NewRow(wf) == IF wf = "support" THEN NewTicket ELSE NewLead

\* create_audit_entry: one more entry, its output summary cut at 500.
create_audit_entry(entries, action, summary_len) ==
    Append(entries, [action |-> action, len |-> Truncate(summary_len, SUMMARY_MAX)])

\* Intake: the Run in status queued, the row in status new, the creation
\* audit entry (actor webhook), and the enqueue, which gives the job
\* RETRY_MAX retries or raises, in which case intake logs and answers ok.
ingest(wf, autosend, crm) ==
    /\ run.status = "none"
    /\ run' = [NoRun EXCEPT !.status = "queued"]
    /\ rec' = NewRow(wf)
    /\ fresh' = NewRow(wf)
    /\ \/ job' = [NoJob EXCEPT !.wf = wf, !.state = "queued", !.left = RETRY_MAX,
                               !.autosend = autosend, !.crm = crm]
       \/ job' = [NoJob EXCEPT !.wf = wf, !.autosend = autosend, !.crm = crm]
    /\ UNCHANGED <<budget, audit>>

\* (mutant) the queue grants one retry more than the job was given.
Reraise_once_more(j, e) ==
    IF j.left >= 0
    THEN [j EXCEPT !.state = "queued", !.left = @ - 1, !.pc = "none", !.exc = e]
    ELSE [j EXCEPT !.state = "failed", !.pc = "none", !.exc = e]
\* What the job queue does with a job that raised: another run while
\* retries are left, failed otherwise.
Reraise(j, e) ==
    IF j.left > 0
    THEN [j EXCEPT !.state = "queued", !.left = @ - 1, !.pc = "none", !.exc = e]
    ELSE [j EXCEPT !.state = "failed", !.pc = "none", !.exc = e]

\* The except clause of process_support_ticket and process_lead, for an
\* exception whose message has length e.
Fail(e) ==
    /\ run' = [run EXCEPT !.status = "failed", !.error_len = Truncate(e, ERROR_MESSAGE_MAX)]
    /\ audit' = create_audit_entry(audit, "error", Truncate(e, SUMMARY_MAX))
    /\ job' = Reraise(job, e)

\* The same for an exception raised after update_run_status(running,
\* current_step=step) inside the step that the worker was at.
FailIn(step, e) ==
    /\ run' = [run EXCEPT !.status = "failed", !.current_step = step,
                          !.error_len = Truncate(e, ERROR_MESSAGE_MAX)]
    /\ audit' = create_audit_entry(audit, "error", Truncate(e, SUMMARY_MAX))
    /\ job' = Reraise(job, e)

\* update_run_status(..., "completed", steps_completed=..., current_step=...)
\* and the normal end of the job.
Complete(steps, step) ==
    /\ run' = [run EXCEPT !.status = "completed", !.steps = steps, !.current_step = step]
    /\ job' = [job EXCEPT !.state = "finished", !.pc = "none", !.steps = steps]

\* (mutant) current_step is written when a step is done, not before it.
Continue_late(steps, step) ==
    /\ run' = [run EXCEPT !.status = "running", !.current_step = job.pc]
    /\ job' = [job EXCEPT !.pc = step, !.steps = steps]

\* The same after the classification step, whose result the worker keeps
\* in classify_result.
ContinueWith(steps, step, content) ==
    /\ run' = [run EXCEPT !.status = "running", !.current_step = step]
    /\ job' = [job EXCEPT !.pc = step, !.steps = steps, !.out = content]

\* update_run_status(running, current_step=step) before the next step, and
\* the worker going on to that step.
Continue(steps, step) ==
    /\ run' = [run EXCEPT !.status = "running", !.current_step = step]
    /\ job' = [job EXCEPT !.pc = step, !.steps = steps]

\* (mutant) a retry goes on at the step the Run row names.
job_start_resume ==
    /\ job.state = "queued"
    /\ LET first == IF job.wf = "support" THEN "classify" ELSE "extract"
           at == IF run.current_step = "none" THEN first ELSE run.current_step IN
        /\ run' = [run EXCEPT !.status = "running", !.current_step = at]
        /\ job' = [job EXCEPT !.state = "working", !.pc = at, !.steps = <<>>, !.out = <<>>,
                              !.exc = -1, !.attempt = @ + 1]
    /\ rec' = [rec EXCEPT !.status = "processing"]
    /\ fresh' = [NewRow(job.wf) EXCEPT !.status = "processing"]
    /\ audit' = <<>>
    /\ UNCHANGED budget

\* (mutant) the worker counts every attempt as a run of the day.
job_start_counted ==
    /\ job.state = "queued"
    /\ LET first == IF job.wf = "support" THEN "classify" ELSE "extract" IN
        /\ run' = [run EXCEPT !.status = "running", !.current_step = first]
        /\ job' = [job EXCEPT !.state = "working", !.pc = first, !.steps = <<>>, !.out = <<>>,
                              !.exc = -1, !.attempt = @ + 1]
    /\ rec' = [rec EXCEPT !.status = "processing"]
    /\ fresh' = [NewRow(job.wf) EXCEPT !.status = "processing"]
    /\ audit' = <<>>
    /\ runs' = [t \in Tenants |-> [d \in Days |->
                    IF d = _day_key(now) /\ \E w \in Workers : tenant[w] = t
                    THEN [n |-> runs[t][d].n + 1, exp |-> now + DAY_KEY_TTL]
                    ELSE runs[t][d]]]
    /\ UNCHANGED <<now, circuit, rate, tokens, tenant, pc, local, last, checks, call, quote>>

\* A worker takes the job: update_run_status(running, current_step=init),
\* the loads, update_run_status(running, current_step=first step), status
\* processing on the row.
job_start ==
    /\ job.state = "queued"
    /\ LET first == IF job.wf = "support" THEN "classify" ELSE "extract" IN
        /\ run' = [run EXCEPT !.status = "running", !.current_step = first]
        /\ job' = [job EXCEPT !.state = "working", !.pc = first, !.steps = <<>>, !.out = <<>>,
                              !.exc = -1, !.attempt = @ + 1]
    /\ rec' = [rec EXCEPT !.status = "processing"]
    /\ fresh' = [NewRow(job.wf) EXCEPT !.status = "processing"]
    /\ audit' = <<>>
    /\ UNCHANGED budget

\* Step 1 of the support workflow: router.route(classify) raises, or its
\* result is applied and audited.
classify ==
    /\ job.state = "working" /\ job.pc = "classify"
    /\ \/ \E e \in ErrLens : Fail(e) /\ UNCHANGED <<rec, fresh>>
       \/ \E c \in LocalOutputs :
            /\ rec' = _apply_classification(rec, c).row
            /\ fresh' = _apply_classification(fresh, c).row
            /\ audit' = create_audit_entry(audit, "classified", 60)
            /\ ContinueWith(Append(job.steps, "classify"), "draft", c)
    /\ UNCHANGED budget

\* _apply_routing_rules under a tenant with no routing configuration.
_apply_routing_rules(t) ==
    LET team == IF t.suggested_team \in {"null", ""} THEN "support" ELSE t.suggested_team
        conf == IF t.classification_confidence = -1 THEN 0 ELSE t.classification_confidence
        routed == [t EXCEPT !.assigned_team = team, !.tags = "[]"] IN
    IF conf < DEFAULT_ESCALATE_BELOW
    THEN [routed EXCEPT !.needs_human = "true", !.status = "escalated", !.tags = "[auto-escalated]"]
    ELSE routed

\* Step 2 of the support workflow: router.route(draft_reply) raises, or
\* its result is applied and audited.
draft ==
    /\ job.state = "working" /\ job.pc = "draft"
    /\ \/ \E e \in ErrLens : Fail(e) /\ UNCHANGED <<rec, fresh>>
       \/ \E c \in Outputs :
            /\ rec' = _apply_draft(rec, c).row
            /\ fresh' = _apply_draft(fresh, c).row
            /\ audit' = create_audit_entry(audit, "draft_generated", 20)
            /\ Continue(Append(job.steps, "draft"), "route")
    /\ UNCHANGED budget

\* Step 3 of the support workflow: the routing rules, which call no
\* backend and write no audit entry.
route_ticket ==
    /\ job.state = "working" /\ job.pc = "route"
    /\ rec' = _apply_routing_rules(rec)
    /\ fresh' = _apply_routing_rules(fresh)
    /\ Continue(Append(job.steps, "route"), "notify")
    /\ UNCHANGED <<budget, audit>>

\* (mutant) the tenant's autosend_enabled is not looked at.
AutoSend_any_tenant(t) ==
    /\ t.classification_confidence > 0
    /\ t.classification_confidence >= DEFAULT_CONFIDENCE_THRESHOLD
    /\ t.needs_human # "true"
\* The auto-send condition of step 5.
AutoSend(t) ==
    /\ job.autosend
    /\ t.classification_confidence > 0
    /\ t.classification_confidence >= DEFAULT_CONFIDENCE_THRESHOLD
    /\ t.needs_human # "true"

\* The row after step 5: sent when the auto-send condition holds (the row
\* is written before the audit call raises, and committed by the except
\* clause), draft_ready otherwise.
AutoSendRow(t) ==
    IF AutoSend(t) THEN [t EXCEPT !.reply_sent = TRUE, !.status = "sent"]
    ELSE [t EXCEPT !.status = "draft_ready"]

\* Steps 4 and 5 of the support workflow: the Slack notification, which
\* absorbs its errors, and the auto-send check, whose audit call passes a
\* keyword create_audit_entry does not have and raises TypeError.
notify_ticket ==
    /\ job.state = "working" /\ job.pc = "notify" /\ job.wf = "support"
    /\ rec' = AutoSendRow(rec)
    /\ fresh' = AutoSendRow(fresh)
    /\ IF AutoSend(rec)
       THEN FailIn("autosend", TypeErrorLen)
       ELSE /\ Complete(job.steps \o <<"notify", "autosend_check">>, "done")
            /\ UNCHANGED audit
    /\ UNCHANGED budget

\* (mutant) the gate already closes at a spam score of exactly 0.8.
SpamGate_ge(l) == l.spam_score > 0 /\ l.spam_score >= SPAM_GATE
\* lead.spam_score and lead.spam_score > 0.8
SpamGate(l) == l.spam_score > 0 /\ l.spam_score > SPAM_GATE

\* Step 1 of the lead workflow and the spam gate: router.route(extract)
\* raises, or its result is applied and audited; a lead above the gate is
\* disqualified and the run completed with the steps so far.
extract ==
    /\ job.state = "working" /\ job.pc = "extract"
    /\ \/ \E e \in ErrLens : Fail(e) /\ UNCHANGED <<rec, fresh>>
       \/ \E c \in LocalOutputs :
            LET l == _apply_extraction(rec, c).row
                f == _apply_extraction(fresh, c).row
                steps == Append(job.steps, "extract")
                entries == create_audit_entry(audit, "lead_extracted", 50) IN
            IF SpamGate(l)
            THEN /\ rec' = [l EXCEPT !.status = "disqualified"]
                 /\ fresh' = [f EXCEPT !.status = "disqualified"]
                 /\ audit' = create_audit_entry(entries, "lead_disqualified", 0)
                 /\ run' = [run EXCEPT !.status = "completed", !.steps = steps]
                 /\ job' = [job EXCEPT !.state = "finished", !.pc = "none", !.steps = steps]
            ELSE /\ rec' = l
                 /\ fresh' = f
                 /\ audit' = entries
                 /\ Continue(steps, "qualify")
    /\ UNCHANGED budget

\* Step 2 of the lead workflow: router.route(qualify_lead).
qualify ==
    /\ job.state = "working" /\ job.pc = "qualify"
    /\ \/ \E e \in ErrLens : Fail(e) /\ UNCHANGED <<rec, fresh>>
       \/ \E c \in Outputs :
            /\ rec' = _apply_qualification(rec, c).row
            /\ fresh' = _apply_qualification(fresh, c).row
            /\ audit' = create_audit_entry(audit, "lead_qualified", 30)
            /\ Continue(Append(job.steps, "qualify"), "crm")
    /\ UNCHANGED budget

\* Step 3 of the lead workflow: the CRM adapter absorbs its errors; the
\* step is recorded and audited when a CRM is configured.
crm ==
    /\ job.state = "working" /\ job.pc = "crm"
    /\ IF job.crm
       THEN /\ audit' = create_audit_entry(audit, "crm_updated", 0)
            /\ Continue(Append(job.steps, "crm"), "email_drafts")
       ELSE /\ audit' = audit
            /\ Continue(job.steps, "email_drafts")
    /\ UNCHANGED <<budget, rec, fresh>>

\* Step 4 of the lead workflow: router.route(draft_reply) for the emails.
email_drafts ==
    /\ job.state = "working" /\ job.pc = "email_drafts"
    /\ \/ \E e \in ErrLens : Fail(e) /\ UNCHANGED <<rec, fresh>>
       \/ \E c \in Outputs :
            /\ rec' = _apply_email_drafts(rec, c).row
            /\ fresh' = _apply_email_drafts(fresh, c).row
            /\ audit' = audit
            /\ Continue(Append(job.steps, "email_drafts"), "notify")
    /\ UNCHANGED budget

\* Step 5 of the lead workflow and the end of the run.
notify_lead ==
    /\ job.state = "working" /\ job.pc = "notify" /\ job.wf = "lead"
    /\ rec' = [rec EXCEPT !.status = "qualified"]
    /\ fresh' = [fresh EXCEPT !.status = "qualified"]
    /\ Complete(Append(job.steps, "notify"), "done")
    /\ UNCHANGED <<budget, audit>>

(***************************************************************************)
(* estimate_cost (services/budget.py).  Prices are in hundredths of a      *)
(* dollar per million tokens and a cost is in millionths of a dollar, the  *)
(* sixth decimal that round(cost, 6) keeps.                                *)
(***************************************************************************)
DEFAULT_CLOUD_MODEL == "claude-sonnet-4-20250514"

\* The pricing dict.
pricing ==
    ("local_7b" :> [input |-> 0, output |-> 0])
    @@ ("claude-sonnet-4-20250514" :> [input |-> 300, output |-> 1500])
    @@ ("claude-haiku-4-5-20251001" :> [input |-> 80, output |-> 400])

\* (mutant) a model that is not in the table costs nothing.
Rates_free(model) == IF model \in DOMAIN pricing THEN pricing[model] ELSE pricing["local_7b"]
\* pricing.get(model, pricing["claude-sonnet-4-20250514"])
Rates(model) == IF model \in DOMAIN pricing THEN pricing[model] ELSE pricing[DEFAULT_CLOUD_MODEL]

\* round(x, 6) of x hundredths of a millionth: the nearest millionth, the
\* even one of two that are equally near.
Round6(x) ==
    LET q == x \div 100
        r == x % 100 IN
    IF r < 50 THEN q
    ELSE IF r > 50 THEN q + 1
    ELSE IF q % 2 = 0 THEN q ELSE q + 1

estimate_cost(input_tokens, output_tokens, model) ==
    Round6(input_tokens * Rates(model).input + output_tokens * Rates(model).output)

(***************************************************************************)
(* ModelRouter.route (services/router.py) as one worker runs it: the       *)
(* admission check, the local backend, its fallback and the cloud call.    *)
(* An action is the code up to the next call of a backend; the enforcer    *)
(* methods it calls run to their end inside it.                            *)
(***************************************************************************)
\* (mutant) the local set also takes a drafting task and an unknown one.
LOCAL_TASKS_wide == {"classify", "extract", "summarize", "spam_check", "draft_reply", "translate"}
LOCAL_TASKS == {"classify", "extract", "summarize", "spam_check"}
CLAUDE_TASKS == {"draft_reply", "qualify_lead", "generate_questions", "complex_reasoning"}
DEFAULT_MAX_TOKENS == 1024
FALLBACK_MAX_TOKENS == 256

\* The task types the workflows route.
Tasks == {"classify", "extract", "draft_reply"}
\* Every task type of the two sets, and one that is in neither.
AllTasks == LOCAL_TASKS \cup CLAUDE_TASKS \cup {"translate"}

\* What stays as it is in every step of route().
unrouted == <<rate, runs, tenant, pc, local, last, checks, run, rec, fresh, audit, job, quote>>

\* check_all(estimated_tokens) run to its end: the violation it raises, or "ok".
Admission(t, e) ==
    IF CircuitDecision(circuit[t]) = "raise" THEN "CircuitOpen"
    ELSE IF RateExceeded(t) THEN "rate_limit"
    ELSE IF RunsExceeded(t) THEN "daily_runs"
    ELSE IF TokensExceeded(t, e) THEN "daily_tokens"
    ELSE "ok"

\* route() ends: it returns the result or raises exc.
RouteReturns(result) == [call EXCEPT !.stage = "returned", !.result = result]
RouteRaises(exc) == [call EXCEPT !.stage = "raised", !.exc = exc]

\* route(prompt, task_type): the admission check with the max_tokens
\* estimate e, then the choice of the backend by task type.
route(w, task, e) ==
    /\ Idle(w) /\ call.stage = "idle"
    /\ LET t == tenant[w]
           started == [NoRoute EXCEPT !.cred = call.cred, !.key = call.key, !.local_enabled = call.local_enabled,
                                      !.task = task, !.max_tokens = DEFAULT_MAX_TOKENS,
                                      !.model = "claude-sonnet-4-20250514",
                                      !.before = Get(TokensKey(t))] IN
        /\ circuit' = [circuit EXCEPT ![t] =
                          IF CircuitDecision(@) = "half-open" THEN HSetState(@, "half-open") ELSE @]
        /\ call' = IF Admission(t, e) # "ok"
                   THEN [started EXCEPT !.stage = "raised", !.exc = Admission(t, e)]
                   ELSE [started EXCEPT !.admitted = TRUE,
                                        !.stage = IF task \in LOCAL_TASKS THEN "local" ELSE "claude"]
    /\ UNCHANGED <<now, tokens, unrouted>>

\* call_local_model: the fallback when the local backend is disabled;
\* otherwise the HTTP call, which answers with a content and a token count
\* that is added to the day's tokens, or fails and leads to the fallback.
call_local_model(w) ==
    /\ tenant[w] \in Tenants /\ call.stage = "local"
    /\ IF ~call.local_enabled
       THEN call' = [call EXCEPT !.stage = "fallback"] /\ UNCHANGED tokens
       ELSE \/ \E c \in Outputs, n \in TokenArgs :
                /\ Get(TokensKey(tenant[w])) + n <= MaxCount
                /\ tokens' = [tokens EXCEPT ![tenant[w]][_day_key(now)] = IncrExpire(@, n, DAY_KEY_TTL)]
                /\ call' = RouteReturns([content |-> c, model |-> "local_7b", tokens |-> n, cost |-> 0])
            \/ call' = [call EXCEPT !.stage = "fallback"] /\ UNCHANGED tokens
    /\ UNCHANGED <<now, circuit, unrouted>>

\* (mutant) the fallback goes to the cloud whether or not a key is there.
_local_model_fallback_cloud(w) ==
    /\ tenant[w] \in Tenants /\ call.stage = "fallback"
    /\ call' = [call EXCEPT !.stage = "claude", !.max_tokens = FALLBACK_MAX_TOKENS,
                            !.model = "claude-haiku-4-5-20251001"]
    /\ UNCHANGED <<now, circuit, tokens, unrouted>>

\* _local_model_fallback: call_claude with the small model and 256 output
\* tokens when a key is resolved, the static payload otherwise.
_local_model_fallback(w) ==
    /\ tenant[w] \in Tenants /\ call.stage = "fallback"
    /\ call' = IF call.key
               THEN [call EXCEPT !.stage = "claude", !.max_tokens = FALLBACK_MAX_TOKENS,
                                 !.model = "claude-haiku-4-5-20251001"]
               ELSE RouteReturns(DefaultResult)
    /\ UNCHANGED <<now, circuit, tokens, unrouted>>

\* call_claude up to the API call: ValueError without a key, the token
\* budget check with the estimate e of prompt and output tokens.
call_claude(w, e) ==
    /\ tenant[w] \in Tenants /\ call.stage = "claude"
    /\ call' = IF ~call.key THEN RouteRaises("ValueError")
               ELSE IF TokensExceeded(tenant[w], e) THEN RouteRaises("daily_tokens")
               ELSE [call EXCEPT !.stage = "api"]
    /\ UNCHANGED <<now, circuit, tokens, unrouted>>

\* response.usage of an answer of the API: <<input_tokens, output_tokens>>.
Usages == {u \in TokenArgs \X TokenArgs : u[1] >= 1 /\ u[1] + u[2] \in TokenArgs}

\* (mutant) a failure of the API call is not counted.
RecordFailure_none(h) == h
\* record_failure run to its end on the hash h.
RecordFailure(h) ==
    LET counted == HExpire(HIncrBy(h), CIRCUIT_TIMEOUT * 2) IN
    IF ThresholdReached(counted.failures) THEN HSetOpen(counted) ELSE counted

\* The API call of call_claude: on an answer the tokens used, input and
\* output, are added and record_success is called; on an exception
\* record_failure is called and the exception raised again.
call_claude_api(w) ==
    /\ tenant[w] \in Tenants /\ call.stage = "api"
    /\ LET t == tenant[w]
           called == Append(call.cloud, call.max_tokens) IN
        \/ \E c \in Outputs, u \in Usages :
            /\ Get(TokensKey(t)) + u[1] + u[2] <= MaxCount
            /\ tokens' = [tokens EXCEPT ![t][_day_key(now)] =
                              IncrExpire(@, u[1] + u[2], DAY_KEY_TTL)]
            /\ circuit' = [circuit EXCEPT ![t] = NoHash]
            /\ call' = [RouteReturns([content |-> c, model |-> call.model,
                                      input_tokens |-> u[1], output_tokens |-> u[2],
                                      tokens |-> u[1] + u[2],
                                      cost |-> estimate_cost(u[1], u[2], call.model)])
                        EXCEPT !.cloud = called]
        \/ /\ circuit[t].failures < MaxFailures
           /\ circuit' = [circuit EXCEPT ![t] = RecordFailure(@)]
           /\ call' = [RouteRaises("APIError") EXCEPT !.cloud = called]
           /\ UNCHANGED tokens
    /\ UNCHANGED <<now, unrouted>>

(***************************************************************************)
(* The clock and the store's key expiry.                                  *)
(***************************************************************************)
Purge(k, t_now) == IF Expired(k.exp, t_now) THEN NoKey ELSE k
HPurge(h, t_now) == IF Expired(h.exp, t_now) THEN NoHash ELSE h

Tick ==
    /\ now + TickSeconds <= MaxTime
    /\ now' = now + TickSeconds
    /\ circuit' = [t \in Tenants |-> HPurge(circuit[t], now')]
    /\ rate' = [t \in Tenants |-> [m \in Minutes |-> Purge(rate[t][m], now')]]
    /\ runs' = [t \in Tenants |-> [d \in Days |-> Purge(runs[t][d], now')]]
    /\ tokens' = [t \in Tenants |-> [d \in Days |-> Purge(tokens[t][d], now')]]
    /\ checks' = NoChecks
    /\ UNCHANGED <<tenant, pc, local, last, work>>

\* The clock in steps of half a minute bucket, through the first minute
\* bucket and the first half of the second: a bucket is seen at two times,
\* and a key after its bucket has ended.
ShortTick == MinuteSeconds \div 2
ShortHorizon == MinuteSeconds + ShortTick

TickShort ==
    /\ now + ShortTick <= ShortHorizon
    /\ now' = now + ShortTick
    /\ circuit' = [t \in Tenants |-> HPurge(circuit[t], now')]
    /\ rate' = [t \in Tenants |-> [m \in Minutes |-> Purge(rate[t][m], now')]]
    /\ runs' = [t \in Tenants |-> [d \in Days |-> Purge(runs[t][d], now')]]
    /\ tokens' = [t \in Tenants |-> [d \in Days |-> Purge(tokens[t][d], now')]]
    /\ checks' = NoChecks
    /\ UNCHANGED <<tenant, pc, local, last, work>>

\* The clock advances only between calls: no call is slow enough for the
\* clock to move, or a key to expire, between two of its round trips.
TickBetweenCalls == (\A w \in Workers : pc[w] = "idle") /\ Tick

NextCircuit ==
    \/ \E w \in Workers : check_circuit_breaker(w)
    \/ \E w \in Workers : check_circuit_breaker_hset(w)
    \/ \E w \in Workers : record_failure(w)
    \/ \E w \in Workers : record_failure_expire(w)
    \/ \E w \in Workers : record_failure_hset(w)
    \/ \E w \in Workers : record_success(w)
    \/ Tick

NextAdmit ==
    \/ \E w \in Workers, e \in TokenArgs : check_all(w, e)
    \/ \E w \in Workers : check_all_hset(w)
    \/ \E w \in Workers : check_all_rate(w)
    \/ \E w \in Workers : check_all_runs(w)
    \/ \E w \in Workers : check_all_tokens(w)

NextRate ==
    \/ \E w \in Workers : check_rate_limit(w)
    \/ \E w \in Workers : increment_rate(w)
    \/ Tick

NextDaily ==
    \/ \E w \in Workers : check_daily_runs(w)
    \/ \E w \in Workers : increment_daily_runs(w)
    \/ \E w \in Workers, e \in TokenArgs : check_daily_tokens(w, e)
    \/ \E w \in Workers, n \in TokenArgs : add_daily_tokens(w, n)

NextCaller ==
    \/ \E w \in Workers : caller_check(w)
    \/ \E w \in Workers : caller_increment(w)
    \/ Tick

Next == NextCircuit \/ NextAdmit \/ NextRate \/ NextDaily

\* Every method of the enforcer, called by two workers of one tenant.
Spec == Init /\ [][Next]_vars

\* The circuit breaker under two racing workers.
SpecCircuit == Init /\ [][NextCircuit]_vars

\* The circuit breaker and the intake's check_all() under two racing workers.
NextGate ==
    \/ NextCircuit
    \/ \E w \in Workers : check_all(w, 0)
    \/ \E w \in Workers : check_all_hset(w)
    \/ \E w \in Workers : check_all_rate(w)
    \/ \E w \in Workers : check_all_runs(w)
    \/ \E w \in Workers : check_all_tokens(w)

SpecGate == Init /\ [][NextGate]_vars

\* The circuit breaker under two racing workers whose calls take no time.
NextPrompt ==
    \/ \E w \in Workers : check_circuit_breaker(w)
    \/ \E w \in Workers : check_circuit_breaker_hset(w)
    \/ \E w \in Workers : record_failure(w)
    \/ \E w \in Workers : record_failure_expire(w)
    \/ \E w \in Workers : record_failure_hset(w)
    \/ \E w \in Workers : record_success(w)
    \/ TickBetweenCalls

SpecPrompt == Init /\ [][NextPrompt]_vars

\* The circuit breaker used by one worker.
SpecSeq == InitSeq /\ [][NextCircuit]_vars

\* The rate limit of two tenants.
SpecRate == InitTenants /\ [][NextRate]_vars

\* One caller that increments the rate after each successful check.
SpecCaller == InitOne /\ [][NextCaller]_vars

\* The admission check of one worker, with the circuit and the minute
\* counter driven from the empty store and the day counters as found.
NextAdmitDay ==
    \/ NextAdmit
    \/ \E w \in Workers : record_failure(w)
    \/ \E w \in Workers : record_failure_expire(w)
    \/ \E w \in Workers : record_failure_hset(w)
    \/ \E w \in Workers : record_success(w)
    \/ \E w \in Workers : increment_rate(w)
    \/ Tick

SpecAdmit == InitDay /\ [][NextAdmitDay]_vars

\* Two workers serving the same tenant, either one.
InitRace == InitStore /\ \E t \in Tenants : tenant = [w \in Workers |-> t]

\* Intake requests of one tenant racing on a store with no circuit record.
NextIntake ==
    \/ \E w \in Workers : check_all(w, 0)
    \/ \E w \in Workers : check_all_rate(w)
    \/ \E w \in Workers : check_all_runs(w)
    \/ \E w \in Workers : intake_check_tokens(w)
    \/ \E w \in Workers : intake_enqueue(w)
    \/ \E w \in Workers : intake_increment_rate(w)
    \/ \E w \in Workers : intake_increment_daily_runs(w)
    \/ Tick

SpecIntake == InitRace /\ [][NextIntake]_vars

\* The apply functions on every model output.
NextApply == apply_call

SpecApply == InitApply /\ [][NextApply]_vars

\* The steps of a worker on the job.
NextWorker ==
    \/ job_start
    \/ classify
    \/ draft
    \/ route_ticket
    \/ notify_ticket
    \/ extract
    \/ qualify
    \/ crm
    \/ email_drafts
    \/ notify_lead

NextWorkflow ==
    \/ \E wf \in Workflows, autosend \in BOOLEAN, crm_configured \in BOOLEAN :
        ingest(wf, autosend, crm_configured)
    \/ NextWorker

\* No request yet; no enforcer in use.
InitWorkflow == InitStore /\ tenant = [w \in Workers |-> "none"]

\* One unit of work from intake to its end.
SpecWorkflow == InitWorkflow /\ [][NextWorkflow]_vars

\* The same, with workers that do not stop while a job has a step to take.
SpecWorkflowLive == SpecWorkflow /\ WF_vars(NextWorker)

\* The caller of route() has its result or its exception; the router is
\* free for the next call.
route_done ==
    /\ call.stage \in {"returned", "raised"}
    /\ call' = [NoRoute EXCEPT !.cred = call.cred, !.key = call.key,
                                !.local_enabled = call.local_enabled]
    /\ UNCHANGED <<now, store, unrouted>>

\* One worker's router, with or without a resolvable key and with the
\* local backend enabled or disabled.
InitRoute ==
    /\ InitRedis
    /\ InitEnforcers
    /\ InitWork
    /\ \E t \in Tenants : tenant = [w \in Workers |-> IF w = "w1" THEN t ELSE "none"]
    /\ \E cred \in {NoCredential, TenantCredential}, enabled \in BOOLEAN :
        call = [NoRoute EXCEPT !.cred = cred, !.key = ModelRouter_init(cred),
                               !.local_enabled = enabled]

NextRoute ==
    \/ \E w \in Workers, task \in Tasks, e \in TokenArgs : route(w, task, e)
    \/ \E w \in Workers : call_local_model(w)
    \/ \E w \in Workers : _local_model_fallback(w)
    \/ \E w \in Workers, e \in TokenArgs : call_claude(w, e)
    \/ \E w \in Workers : call_claude_api(w)
    \/ route_done
    \/ Tick

\* The calls of route() by one worker, one after the other.
SpecRoute == InitRoute /\ [][NextRoute]_vars

\* The usage counters: the checks that check_all() is made of, the
\* increments and get_usage.
NextCounters ==
    \/ \E w \in Workers : check_rate_limit(w)
    \/ \E w \in Workers : increment_rate(w)
    \/ \E w \in Workers : check_daily_runs(w)
    \/ \E w \in Workers : increment_daily_runs(w)
    \/ \E w \in Workers, e \in TokenArgs : check_daily_tokens(w, e)
    \/ \E w \in Workers, n \in TokenArgs : add_daily_tokens(w, n)
    \/ \E w \in Workers : get_usage(w)
    \/ TickShort

SpecCounters == InitSeq /\ [][NextCounters]_vars

\* A circuit hash that five record_failure calls at time 0 have opened.
OpenedAtStart ==
    [state |-> "open", failures |-> FAILURE_THRESHOLD, opened_at |-> 0, exp |-> CIRCUIT_TIMEOUT * 2]

\* Two tenants with a worker each.  Tenant t2's rows are as its own calls
\* left them: its circuit closed, or opened at time 0 and seen at once or
\* after the timeout; its counters of the current buckets empty or at
\* their limits.  Tenant t1's rows are empty.
InitObserved ==
    /\ now \in {0, CIRCUIT_TIMEOUT + TickSeconds}
    /\ tenant = [w \in Workers |-> IF w = "w1" THEN "t1" ELSE "t2"]
    /\ \E h \in {NoHash, OpenedAtStart}, full \in BOOLEAN :
        /\ now > 0 => h = OpenedAtStart
        /\ circuit = [t \in Tenants |-> IF t = "t2" THEN h ELSE NoHash]
        /\ rate = [t \in Tenants |-> [m \in Minutes |->
                      IF t = "t2" /\ m = _minute_key(now) /\ full
                      THEN [n |-> max_items_per_minute(t), exp |-> now + RATE_KEY_TTL]
                      ELSE NoKey]]
        /\ runs = [t \in Tenants |-> [d \in Days |->
                      IF t = "t2" /\ d = 0 /\ full THEN Counted(max_runs_per_day(t)) ELSE NoKey]]
        /\ tokens = [t \in Tenants |-> [d \in Days |->
                      IF t = "t2" /\ d = 0 /\ full THEN Counted(max_tokens_per_day(t)) ELSE NoKey]]
    /\ InitWorkers

\* Every method of the enforcer called for tenant t1 and the checks alone
\* for tenant t2, with the clock standing still.
NextTenants ==
    \/ \E w \in Workers : check_circuit_breaker(w)
    \/ \E w \in Workers : check_circuit_breaker_hset(w)
    \/ \E w \in Workers : check_rate_limit(w)
    \/ \E w \in Workers : check_daily_runs(w)
    \/ \E w \in Workers, e \in TokenArgs : check_daily_tokens(w, e)
    \/ record_failure("w1")
    \/ record_failure_expire("w1")
    \/ record_failure_hset("w1")
    \/ record_success("w1")
    \/ increment_rate("w1")
    \/ increment_daily_runs("w1")
    \/ \E n \in TokenArgs : add_daily_tokens("w1", n)

SpecTenants == InitObserved /\ [][NextTenants]_vars

(***************************************************************************)
(* The pipeline from the webhook to the router: one request to an intake   *)
(* handler (api/webhooks.py) from its check_all() to its response, the     *)
(* worker taking the job, and the route() calls of the job's steps.  The   *)
(* rows are those of the unit admitted last.                               *)
(***************************************************************************)
\* (mutant) only CircuitOpenError is answered with 429.
Rejected_circuit_only(a) == a = "CircuitOpen"
\* except (BudgetExceededError, CircuitOpenError): the outcomes of
\* check_all() that the handler answers with 429.
Rejected(a) == a # "ok"

\* The audit entry the handler adds with the Run and the row.
Created(wf) ==
    [action |-> IF wf = "support" THEN "ticket_created" ELSE "lead_created", len |-> 0]

\* A request to the handler of workflow wf: check_all() with no estimate;
\* on a violation 429 and nothing else; otherwise the Run, the row and the
\* audit entry are committed, and the job is enqueued and the two usage
\* counters incremented, or the enqueue raises and is logged.
Request(w, wf) ==
    /\ Idle(w)
    /\ LET t == tenant[w]
           a == Admission(t, 0) IN
        /\ circuit' = [circuit EXCEPT ![t] =
                          IF CircuitDecision(@) = "half-open" THEN HSetState(@, "half-open") ELSE @]
        /\ last' = [w |-> w, call |-> "ingest", outcome |-> a, seen |-> Seen(circuit[t])]
        /\ IF Rejected(a)
           THEN UNCHANGED <<rate, runs, run, rec, fresh, audit, job>>
           ELSE /\ job.state # "working"
                /\ run' = [NoRun EXCEPT !.status = "queued"]
                /\ rec' = NewRow(wf)
                /\ fresh' = NewRow(wf)
                /\ audit' = <<Created(wf)>>
                /\ \/ /\ job' = [NoJob EXCEPT !.wf = wf, !.state = "queued", !.left = RETRY_MAX]
                      /\ Get(RateKey(t)) < MaxRaced /\ Get(RunsKey(t)) < MaxRaced
                      /\ rate' = [rate EXCEPT ![t][_minute_key(now)] =
                                      IncrExpire(@, 1, RATE_KEY_TTL)]
                      /\ runs' = [runs EXCEPT ![t][_day_key(now)] =
                                      IncrExpire(@, 1, DAY_KEY_TTL)]
                   \/ /\ job' = [NoJob EXCEPT !.wf = wf]
                      /\ UNCHANGED <<rate, runs>>
    /\ UNCHANGED <<now, tokens, tenant, pc, local, checks, call, quote>>

ingest_support_ticket(w) == Request(w, "support")

ingest_sales_lead(w) == Request(w, "lead")

\* The step the worker is at calls router.route() with its task type.
step_route(w, task, e) ==
    /\ job.state = "working"
    /\ task = job.pc
    /\ route(w, task, e)

NextPipeline ==
    \/ \E w \in Workers : ingest_support_ticket(w)
    \/ \E w \in Workers : ingest_sales_lead(w)
    \/ job_start
    \/ \E w \in Workers, task \in Tasks, e \in TokenArgs : step_route(w, task, e)
    \/ \E w \in Workers : call_local_model(w)
    \/ \E w \in Workers : _local_model_fallback(w)
    \/ \E w \in Workers, e \in TokenArgs : call_claude(w, e)
    \/ \E w \in Workers : call_claude_api(w)
    \/ route_done
    \/ Tick

\* The deployment's default: no local backend (settings.local_model_enabled).
InitPipeline == InitRoute /\ ~call.local_enabled

\* Requests of one tenant and the router calls of the unit they admit.
SpecPipeline == InitPipeline /\ [][NextPipeline]_vars

\* Units of one tenant from the webhook to the end of their jobs: the
\* intake handlers, the worker's attempts with the retries of the job
\* queue, and the clock.
NextUnit ==
    \/ \E w \in Workers : ingest_support_ticket(w)
    \/ \E w \in Workers : ingest_sales_lead(w)
    \/ NextWorker
    \/ TickShort

SpecUnit == InitOne /\ [][NextUnit]_vars

\* The arguments of estimate_cost: small token counts, on which the sixth
\* decimal is rounded, and the counts of the repository's tests; the three
\* models of the table and one that is not in it.
CostTokens == (0 .. MaxQuote) \cup {500, 1000}
CostModels == DOMAIN pricing \cup {"gpt-4o"}

InitCost ==
    /\ InitRedis
    /\ pc = [w \in Workers |-> "idle"]
    /\ local = [w \in Workers |-> 0]
    /\ last = NoCall
    /\ checks = NoChecks
    /\ InitWork
    /\ call = NoRoute
    /\ tenant = [w \in Workers |-> "none"]
    /\ \E i \in CostTokens, o \in CostTokens, model \in CostModels :
        quote = [input_tokens |-> i, output_tokens |-> o, model |-> model, cost |-> -1]

\* The call estimate_cost(input_tokens, output_tokens, model).
estimate_cost_call ==
    /\ quote.cost = -1
    /\ quote' = [quote EXCEPT
                    !.cost = estimate_cost(quote.input_tokens, quote.output_tokens, quote.model)]
    /\ UNCHANGED <<now, store, tenant, pc, local, last, checks, run, rec, fresh, audit, job, call>>

NextCost == estimate_cost_call

\* estimate_cost on every argument.
SpecCost == InitCost /\ [][NextCost]_vars

\* route() called with every task type, at one time of the day.
NextDispatch ==
    \/ \E w \in Workers, task \in AllTasks, e \in TokenArgs : route(w, task, e)
    \/ \E w \in Workers : call_local_model(w)
    \/ \E w \in Workers : _local_model_fallback(w)
    \/ \E w \in Workers, e \in TokenArgs : call_claude(w, e)
    \/ \E w \in Workers : call_claude_api(w)
    \/ route_done

SpecDispatch == InitRoute /\ [][NextDispatch]_vars

(***************************************************************************)
(* Properties.                                                            *)
(***************************************************************************)
\* The call worker w made last, if it is the last call that ended.
Ended(w, name, r) == last.w = w /\ last.call = name /\ last.outcome = r

\* C1: check_rate_limit raises BudgetExceeded(rate_limit) if and only if the
\* counter of the current minute bucket (0 when missing) is at least the
\* tenant's max_items_per_minute, and returns otherwise.
C1_RateLimitIff ==
    [][\A w \in Workers : check_rate_limit(w) =>
        LET c == rate[tenant[w]][now \div 60].n IN
            last'.outcome = IF c >= max_items_per_minute(tenant[w]) THEN "rate_limit" ELSE "ok"]_vars

\* C1 witness: a check was denied with the counter standing exactly at the limit.
C1_Witness ==
    \E w \in Workers :
        /\ Ended(w, "check_rate_limit", "rate_limit")
        /\ rate[tenant[w]][now \div 60].n = max_items_per_minute(tenant[w])

\* C2: for a single caller that increments after each successful check, in
\* a minute bucket that starts with no increment carried over, the k-th
\* check succeeds if and only if k <= max_items_per_minute: the first N
\* succeed and the (N+1)-th raises BudgetExceeded(rate_limit).
C2_FirstNAdmitted ==
    [][\A w \in Workers : (caller_check(w) /\ ~checks.carried) =>
        last'.outcome = IF checks.n + 1 <= max_items_per_minute(tenant[w])
                        THEN "ok" ELSE "rate_limit"]_vars

\* C2 witness: the (N+1)-th check of a bucket was denied.
C2_Witness ==
    \E w \in Workers :
        /\ Ended(w, "check_rate_limit", "rate_limit")
        /\ ~checks.carried
        /\ checks.n = max_items_per_minute(tenant[w]) + 1

\* The violation check_all(e) is to raise for tenant t in the current state:
\* that of the first check, in the order circuit, rate, runs, tokens, whose
\* condition holds, or "ok".
FirstViolation(t, e) ==
    IF circuit[t].state = "open" /\ now - circuit[t].opened_at <= 300 THEN "CircuitOpen"
    ELSE IF rate[t][now \div 60].n >= max_items_per_minute(t) THEN "rate_limit"
    ELSE IF runs[t][now \div 86400].n >= max_runs_per_day(t) THEN "daily_runs"
    ELSE IF tokens[t][now \div 86400].n + e > max_tokens_per_day(t) THEN "daily_tokens"
    ELSE "ok"

\* A step in which check_all of worker w returns or raises.
CheckAllEnds(w) ==
    /\ \/ \E e \in TokenArgs : check_all(w, e)
       \/ check_all_rate(w)
       \/ check_all_runs(w)
       \/ check_all_tokens(w)
    /\ pc'[w] = "idle"

\* C3: check_all(estimated_tokens) evaluates circuit breaker, per-minute
\* rate, daily runs and daily tokens in this order and ends with the
\* violation of the first check whose condition holds (CircuitOpen,
\* rate_limit, daily_runs, daily_tokens; tokens at count + estimate equal to
\* the limit are admitted); it returns normally iff no condition holds.
C3_FirstFailingCheckWins ==
    [][\A w \in Workers : CheckAllEnds(w) =>
        last'.outcome = FirstViolation(tenant[w], local[w])]_vars

\* C3 witness: check_all raised rate_limit although the daily run count was
\* at its limit too.
C3_Witness ==
    \E w \in Workers :
        /\ Ended(w, "check_all", "rate_limit")
        /\ rate[tenant[w]][now \div 60].n >= max_items_per_minute(tenant[w])
        /\ runs[tenant[w]][now \div 86400].n >= max_runs_per_day(tenant[w])

\* A step in which record_failure of worker w returns.
RecordFailureEnds(w) ==
    /\ record_failure_expire(w) \/ record_failure_hset(w)
    /\ pc'[w] = "idle"

\* A step in which worker w starts a circuit check, alone or in check_all.
CircuitChecked(w) == check_circuit_breaker(w) \/ \E e \in TokenArgs : check_all(w, e)

\* C4: record_failure increments failure_count by one; the call opens the
\* circuit, with opened_at the time of the call, exactly when the count it
\* incremented to is >= 5, and otherwise leaves state and opened_at as they
\* were: from a closed circuit with count 0 the first 4 consecutive calls
\* leave it closed and the 5th opens it.
C4_OpensAtThreshold ==
    [][\A w \in Workers :
        LET c == circuit[tenant[w]]
            d == circuit'[tenant[w]] IN
        /\ record_failure(w) =>
            /\ d.failures = c.failures + 1 /\ local'[w] = d.failures
            /\ d.state = c.state /\ d.opened_at = c.opened_at
        /\ RecordFailureEnds(w) =>
            IF local[w] >= 5
            THEN d.state = "open" /\ d.opened_at = now
            ELSE d.state = c.state /\ d.opened_at = c.opened_at]_vars

\* C4 witness: the fifth failure in a row has just opened the circuit.
C4_Witness ==
    \E w \in Workers :
        /\ Ended(w, "record_failure", "ok")
        /\ last.seen.failures = 5
        /\ circuit[tenant[w]] = [state |-> "open", failures |-> 5, opened_at |-> now, exp |-> now + 600]

\* C5: a circuit check (check_circuit_breaker or check_all) that finds the
\* stored state open with now - opened_at <= 300 raises CircuitOpen and
\* leaves the circuit record unchanged.
C5_OpenDenies ==
    [][\A w \in Workers :
        LET c == circuit[tenant[w]] IN
        (CircuitChecked(w) /\ c.state = "open" /\ now - c.opened_at <= 300) =>
            /\ last'.w = w /\ last'.outcome = "CircuitOpen"
            /\ pc'[w] = "idle"
            /\ circuit' = circuit]_vars

\* C5 witness: check_all was refused exactly 300 s after the circuit opened.
C5_Witness ==
    \E w \in Workers :
        /\ Ended(w, "check_all", "CircuitOpen")
        /\ circuit[tenant[w]].state = "open"
        /\ now - circuit[tenant[w]].opened_at = 300

\* A circuit check of worker w that found the circuit open lets the caller
\* through: its first round trip goes on to the write of half-open, and
\* that write stores half-open and passes the check.
PassesHalfOpen(w) ==
    /\ check_circuit_breaker(w) => pc'[w] = "cb_hset"
    /\ (\E e \in TokenArgs : check_all(w, e)) => pc'[w] = "ca_hset"

WritesHalfOpen(w) ==
    /\ check_circuit_breaker_hset(w) =>
        circuit'[tenant[w]].state = "half-open" /\ Ended(w, "check_circuit_breaker", "ok")'
    /\ check_all_hset(w) =>
        circuit'[tenant[w]].state = "half-open" /\ pc'[w] = "ca_rate"

\* C6 as claimed: a check on an open circuit at least 300 s after opened_at,
\* exactly 300 s included, sets the state to half-open and does not raise.
C6_HalfOpenAtTimeout ==
    [][\A w \in Workers :
        LET c == circuit[tenant[w]] IN
        /\ (CircuitChecked(w) /\ c.state = "open" /\ now - c.opened_at >= 300) => PassesHalfOpen(w)
        /\ WritesHalfOpen(w)]_vars

\* C6 amended: a check on an open circuit more than 300 s after opened_at
\* sets the stored state to half-open and does not raise CircuitOpen.
C6_HalfOpenAfterTimeout ==
    [][\A w \in Workers :
        LET c == circuit[tenant[w]] IN
        /\ (CircuitChecked(w) /\ c.state = "open" /\ now - c.opened_at > 300) => PassesHalfOpen(w)
        /\ WritesHalfOpen(w)]_vars

\* C6 witness: a check has returned after writing half-open.
C6_Witness ==
    \E w \in Workers :
        /\ Ended(w, "check_circuit_breaker", "ok")
        /\ last.seen.state = "open"
        /\ circuit[tenant[w]].state = "half-open"

\* C7 as claimed: once the circuit is half-open, every further
\* check_circuit_breaker call, by any worker, raises CircuitOpen until
\* record_success or record_failure is called.
C7_HalfOpenAdmitsOne ==
    [][\A w \in Workers :
        (check_circuit_breaker(w) /\ circuit[tenant[w]].state = "half-open") =>
            last'.w = w /\ last'.outcome = "CircuitOpen"]_vars

\* C8: record_success on a half-open circuit leaves it closed with
\* failure_count 0 and no opened_at, so that the next check passes and the
\* count starts again from 0.
C8_SuccessResets ==
    [][\A w \in Workers :
        (record_success(w) /\ circuit[tenant[w]].state = "half-open") =>
            LET d == circuit'[tenant[w]] IN
            d.state = "none" /\ d.failures = 0 /\ d.opened_at = -1]_vars

\* C8 witness: record_success has just found the circuit half-open.
C8_Witness ==
    \E w \in Workers :
        /\ Ended(w, "record_success", "ok")
        /\ last.seen.state = "half-open"
        /\ last.seen.failures >= 5
        /\ ~HExists(circuit[tenant[w]])

\* C9 as claimed: record_failure on a half-open circuit increments
\* failure_count and puts the circuit back to open with a fresh opened_at:
\* the count it increments to reaches the threshold, which is what makes
\* the call go on to write state open and opened_at.
C9_FailureReopens ==
    [][\A w \in Workers :
        LET c == circuit[tenant[w]]
            d == circuit'[tenant[w]] IN
        /\ (record_failure(w) /\ c.state = "half-open") =>
            d.failures = c.failures + 1 /\ local'[w] >= 5
        /\ (record_failure_expire(w) /\ local[w] >= 5) => pc'[w] = "rf_hset"
        /\ record_failure_hset(w) => d.state = "open" /\ d.opened_at = now]_vars

\* C10 as claimed: record_success on a closed circuit changes neither its
\* state nor its failure_count nor its opened_at.
C10_SuccessNoOp ==
    [][\A w \in Workers :
        LET c == circuit[tenant[w]]
            d == circuit'[tenant[w]] IN
        (record_success(w) /\ c.state = "none" /\ c.failures \in 0 .. 4) =>
            d.state = c.state /\ d.failures = c.failures /\ d.opened_at = c.opened_at]_vars

\* C10 amended: record_success on a closed circuit keeps it closed with no
\* opened_at and resets failure_count to 0 (it changes nothing only when
\* the count was already 0).
C10_SuccessClearsCount ==
    [][\A w \in Workers :
        LET c == circuit[tenant[w]]
            d == circuit'[tenant[w]] IN
        (record_success(w) /\ c.state = "none" /\ c.failures \in 0 .. 4) =>
            d.state = "none" /\ d.failures = 0 /\ d.opened_at = -1 /\ d.exp = -1]_vars

\* C10 witness: record_success has just cleared a closed circuit's count of 4.
C10_Witness ==
    \E w \in Workers :
        /\ Ended(w, "record_success", "ok")
        /\ last.seen = [state |-> "closed", failures |-> 4]
        /\ circuit[tenant[w]] = NoHash

\* A step that leaves the circuit of tenant t open either found it open with
\* the same opened_at, or is the state write of a record_failure call that
\* stamps it with the time of that call.
OpenedByFailure(t) ==
    circuit'[t].state = "open" =>
        \/ circuit[t].state = "open" /\ circuit'[t].opened_at = circuit[t].opened_at
        \/ \E w \in Workers :
            tenant[w] = t /\ record_failure_hset(w) /\ circuit'[t].opened_at = now

\* C11: under any interleaving of check_circuit_breaker, record_failure and
\* record_success by concurrent workers, a circuit record whose state is
\* open carries an opened_at (never missing, so never read as the default
\* 0) that is the time of some record_failure call, not later than now.
C11_OpenHasOpenedAt ==
    /\ [](\A t \in Tenants :
            circuit[t].state = "open" => circuit[t].opened_at \in 0 .. now)
    /\ [][\A t \in Tenants : OpenedByFailure(t)]_vars

\* C11 witness: a circuit that was re-opened at 450 s is still open later.
C11_Witness ==
    \E w \in Workers :
        /\ circuit[tenant[w]].state = "open"
        /\ circuit[tenant[w]].opened_at = 450
        /\ now > 450

\* C12: when the intake requests of one tenant race, each doing check_all
\* and later increment_rate and increment_daily_runs with no lock, no minute
\* counter exceeds max_items_per_minute and no day counter exceeds
\* max_runs_per_day by more than the number W of racing workers.
C12_OvershootBounded ==
    \A t \in Tenants :
        /\ \A m \in Minutes : rate[t][m].n <= max_items_per_minute(t) + Cardinality(Workers)
        /\ \A d \in Days : runs[t][d].n <= max_runs_per_day(t) + Cardinality(Workers)

\* C12 witness: both counters of a tenant stand above their limits.
C12_Witness ==
    \E t \in Tenants :
        /\ rate[t][now \div 60].n > max_items_per_minute(t)
        /\ runs[t][now \div 86400].n > max_runs_per_day(t)

\* C17: for every shape of router result content (no brace, an opening
\* brace without a closing one, braces around invalid JSON, valid JSON) each
\* of the five apply functions returns without raising, and writes its
\* defaults, and nothing else, when the content cannot be parsed.
C17_ApplyNeverRaises ==
    [][apply_call =>
        /\ job'.pc = "returned"
        /\ ParseContent(job.out).kind # "object" =>
            rec' = Defaults(job.pc, IF job.pc \in TicketApply THEN NewTicket ELSE NewLead)]_vars

\* C17 witness: _apply_extraction returned with its defaults on a content
\* with an opening brace and no closing one.
C17_Witness ==
    /\ job.pc = "returned"
    /\ job.steps = <<"_apply_extraction">>
    /\ HasToken(job.out, "{") /\ ~HasToken(job.out, "}")
    /\ rec = ExtractionDefaults(NewLead)

\* The moves of a Run's status the life cycle allows: created queued, taken
\* to running, kept running, ended completed or failed, and no move out of
\* completed or failed.
StatusMove(from, to) ==
    \/ from = to
    \/ from = "none" /\ to = "queued"
    \/ from = "queued" /\ to = "running"
    \/ from = "running" /\ to \in {"completed", "failed"}

\* C13 as claimed: a Run's status only moves queued -> running -> completed
\* or failed, and once it is completed or failed it never changes again,
\* job-queue retries included.
C13_TerminalOnce == [][StatusMove(run.status, run'.status)]_vars

\* C14 as claimed: every Run that intake creates in status queued
\* eventually reaches completed or failed, given workers that keep working.
C14_EveryRunEnds == (run.status = "queued") ~> (run.status \in {"completed", "failed"})

\* A step of the worker in which a workflow step raises.
StepRaises == NextWorker /\ job'.exc # -1 /\ job.exc = -1

\* C15: when a step of process_support_ticket or process_lead raises, the
\* attempt ends with the Run in status failed, its error message cut to at
\* most 1000 characters, exactly one audit entry with action error, whose
\* summary has at most 500 characters, written for the attempt, and the
\* exception passed on to the job queue, which ends the attempt.
C15_FailureHandled ==
    [][StepRaises =>
        /\ run'.status = "failed"
        /\ run'.error_len = (IF job'.exc > 1000 THEN 1000 ELSE job'.exc)
        /\ Cardinality({i \in 1 .. Len(audit') : audit'[i].action = "error"}) = 1
        /\ audit'[Len(audit')].action = "error"
        /\ audit'[Len(audit')].len = (IF job'.exc > 500 THEN 500 ELSE job'.exc)
        /\ job'.state \in {"queued", "failed"} /\ job'.pc = "none"]_vars

\* C15 witness: the last attempt of a job failed on an exception whose
\* message is longer than both limits.
C15_Witness ==
    /\ job.state = "failed" /\ job.exc = 1200
    /\ run.status = "failed" /\ run.error_len = 1000
    /\ audit # <<>> /\ audit[Len(audit)] = [action |-> "error", len |-> 500]

\* C16: in the lead workflow an extracted spam_score above 0.8 ends the run
\* completed with steps_completed holding the extract step only and the
\* lead disqualified, and the attempt takes no further step (no qualify,
\* CRM, email-draft or notify step); a spam_score of 0.8 or less goes on to
\* the qualify step.
C16_SpamGate ==
    /\ [][(extract /\ job'.exc = -1) =>
            IF rec'.spam_score > 80
            THEN /\ run'.status = "completed" /\ run'.steps = <<"extract">>
                 /\ rec'.status = "disqualified"
                 /\ job'.state = "finished" /\ job'.pc = "none"
            ELSE /\ run'.status = "running" /\ job'.pc = "qualify"
                 /\ rec'.status = "processing"]_vars
    /\ [](job.state = "finished" => ~ENABLED NextWorker)

\* C16 witness: a lead was disqualified by the gate.
C16_Witness ==
    /\ job.wf = "lead" /\ job.state = "finished"
    /\ rec.status = "disqualified" /\ rec.spam_score = 81
    /\ run.status = "completed" /\ run.steps = <<"extract">>

\* C18 as claimed: a workflow replayed from its first step on a row partly
\* written by an earlier failed attempt ends with the field values the same
\* model outputs give on a fresh row.
C18_ReplayIdempotent == run.status = "completed" => rec = fresh

\* C19 as claimed: for a LOCAL-routed task that passed admission, route()
\* returns a result and does not raise, whatever the backends do.
C19_LocalNeverRaises ==
    ~(call.task \in {"classify", "extract", "summarize", "spam_check"}
      /\ call.admitted /\ call.stage = "raised")

\* C20: when the local backend is disabled or its call fails and no cloud
\* credential is resolvable, route() for a LOCAL task returns the static
\* default payload (model fallback_default, 0 tokens, cost 0.0, needs_human
\* true, confidence 0.0) without a cloud call and with the daily token
\* counter as it was before the call; with a credential the fallback is one
\* call of the cloud backend at most, with 256 output tokens.
C20_FallbackChain ==
    /\ [][\A w \in Workers : _local_model_fallback(w) =>
            IF call.key
            THEN call'.stage = "claude" /\ call'.max_tokens = 256
            ELSE /\ call'.stage = "returned"
                 /\ call'.result.model = "fallback_default"
                 /\ call'.result.tokens = 0 /\ call'.result.cost = 0
                 /\ JsonLoads(call'.result.content).data.needs_human = "true"
                 /\ JsonLoads(call'.result.content).data.confidence = 0]_vars
    /\ [](\A w \in Workers :
            (tenant[w] \in Tenants /\ call.task \in {"classify", "extract"}) =>
                /\ Len(call.cloud) <= 1
                /\ \A i \in 1 .. Len(call.cloud) : call.cloud[i] = 256
                /\ ~call.key => (/\ call.cloud = <<>>
                                 /\ call.stage \in {"fallback", "returned"} =>
                                        call.local_enabled \/ tokens[tenant[w]][now \div 86400].n = call.before
                                 /\ call.stage = "returned" /\ call.result.model = "fallback_default" =>
                                        tokens[tenant[w]][now \div 86400].n = call.before))

\* C20 witness: the local call failed, no key was there, and route()
\* returned the default payload.
C20_Witness ==
    /\ call.task = "extract" /\ call.local_enabled /\ ~call.key
    /\ call.stage = "returned" /\ call.result.model = "fallback_default"
    /\ call.cloud = <<>>

\* A step of route() and of the calls it makes: the clock stands still.
RouteStep == now' = now /\ call' # call

\* C21 as claimed: serving a LOCAL-routed task records no circuit-breaker
\* failure and no success: in every step of a route() for a LOCAL task the
\* tenant's failure count and opened_at stay as they are, and the circuit
\* state changes at most from open to half-open.
C21_LocalLeavesCircuit ==
    [][\A w \in Workers :
        (tenant[w] \in {"t1", "t2"} /\ RouteStep
         /\ call'.task \in {"classify", "extract", "summarize", "spam_check"}) =>
            /\ circuit'[tenant[w]].failures = circuit[tenant[w]].failures
            /\ circuit'[tenant[w]].opened_at = circuit[tenant[w]].opened_at
            /\ \/ circuit'[tenant[w]].state = circuit[tenant[w]].state
               \/ /\ circuit[tenant[w]].state = "open"
                  /\ circuit'[tenant[w]].state = "half-open"]_vars

\* C22: for a CLOUD-routed task whose backend is called: when the call
\* fails the failure count grows by exactly 1, the day's token counter is
\* unchanged and route() raises with no result substituted; when it answers
\* the day's token counter grows by exactly input_tokens + output_tokens of
\* the answer and record_success has cleared the circuit record.
C22_CloudCallAccounting ==
    [][\A w \in Workers :
        (call_claude_api(w)
         /\ call.task \notin {"classify", "extract", "summarize", "spam_check"}) =>
            LET t == tenant[w]
                day == now \div 86400 IN
            IF call'.stage = "raised"
            THEN /\ circuit'[t].failures = circuit[t].failures + 1
                 /\ tokens' = tokens
                 /\ call'.exc = "APIError"
                 /\ call'.result = NoResult
            ELSE /\ call'.stage = "returned"
                 /\ tokens'[t][day].n = tokens[t][day].n
                        + call'.result.input_tokens + call'.result.output_tokens
                 /\ call'.result.tokens
                        = call'.result.input_tokens + call'.result.output_tokens
                 /\ circuit'[t].failures = 0
                 /\ circuit'[t].state = "none"]_vars

\* C22 witness: a cloud call of a CLOUD task failed on a circuit that had
\* already counted failures, and route() raised.
C22_Witness ==
    /\ call.task = "draft_reply" /\ call.stage = "raised" /\ call.exc = "APIError"
    /\ call.cloud = <<1024>>
    /\ \E w \in Workers : tenant[w] \in Tenants /\ circuit[tenant[w]].failures = 3

\* C23: LOCAL_TASKS and CLAUDE_TASKS are disjoint, and an admitted route()
\* goes to call_local_model for each of the four local task types and to
\* call_claude for every other task type, in CLAUDE_TASKS or in neither set.
C23_TaskRouting ==
    /\ [](LOCAL_TASKS \cap CLAUDE_TASKS = {})
    /\ [][(call.stage = "idle" /\ call'.stage \notin {"idle", "raised"}) =>
            /\ call'.task \in {"classify", "extract", "summarize", "spam_check"}
                    => call'.stage = "local"
            /\ call'.task \in {"draft_reply", "qualify_lead", "generate_questions",
                               "complex_reasoning"} => call'.stage = "claude"
            /\ call'.task \notin {"classify", "extract", "summarize", "spam_check",
                                  "draft_reply", "qualify_lead", "generate_questions",
                                  "complex_reasoning"} => call'.stage = "claude"]_vars

\* C23 witness: a task type of neither set is at the cloud backend's call.
C23_Witness == call.task = "translate" /\ call.stage = "api" /\ call.max_tokens = 1024

\* C24: when check_all() raises BudgetExceeded or CircuitOpen in an intake
\* handler, the request is answered with that violation and nothing enters
\* the pipeline: no Run, no ticket or lead, no audit entry, no job, and the
\* usage counters of items, runs and tokens are as they were.
C24_RejectedNeverEnters ==
    [][\A w \in Workers :
        ((ingest_support_ticket(w) \/ ingest_sales_lead(w))
         /\ FirstViolation(tenant[w], 0) # "ok") =>
            /\ last'.call = "ingest"
            /\ last'.outcome = FirstViolation(tenant[w], 0)
            /\ UNCHANGED <<run, rec, audit, job, rate, runs, tokens>>]_vars

\* C24 witness: a request was rejected for the open circuit while the unit
\* admitted before it is being worked on.
C24_Witness ==
    /\ last.call = "ingest" /\ last.outcome = "CircuitOpen"
    /\ run.status = "running" /\ job.state = "working"

\* C30 as claimed: once a unit is admitted and its job is being worked on,
\* route()'s admission check denies a step only for the daily token budget
\* or an open circuit, never for rate_limit or daily_runs.
C30_StepsNotRateLimited ==
    (job.state = "working" /\ call.stage = "raised")
        => call.exc \notin {"rate_limit", "daily_runs"}

\* A usage counter of a bucket that has not ended at the next state, which
\* is not lower there than it is now.
KeptInBucket(k, next, bucket_end) == now' >= bucket_end \/ next.n >= k.n

\* C25: within its time bucket no usage counter decreases; a counter changes
\* only in increment_rate (the minute's items), increment_daily_runs (the
\* day's runs) and add_daily_tokens (the day's tokens), or when the store
\* drops an expired key; the checks and get_usage change no counter; and
\* the expiry given to a key, 120 s or 2 days after the increment, is never
\* before the end of the key's bucket.
C25_CountersMonotonic ==
    /\ [][\A t \in Tenants :
            /\ \A m \in Minutes : KeptInBucket(rate[t][m], rate'[t][m], (m + 1) * 60)
            /\ \A d \in Days :
                /\ KeptInBucket(runs[t][d], runs'[t][d], (d + 1) * 86400)
                /\ KeptInBucket(tokens[t][d], tokens'[t][d], (d + 1) * 86400)]_vars
    /\ [][/\ rate' # rate => (now' # now \/ \E w \in Workers : increment_rate(w))
          /\ runs' # runs => (now' # now \/ \E w \in Workers : increment_daily_runs(w))
          /\ tokens' # tokens =>
                (now' # now \/ \E w \in Workers, n \in TokenArgs : add_daily_tokens(w, n))]_vars
    /\ [][\A w \in Workers :
            (\/ check_rate_limit(w)
             \/ check_daily_runs(w)
             \/ \E e \in TokenArgs : check_daily_tokens(w, e)
             \/ get_usage(w)) => UNCHANGED <<rate, runs, tokens>>]_vars
    /\ [](\A t \in Tenants :
            /\ \A m \in Minutes : rate[t][m].exp # -1 => rate[t][m].exp >= (m + 1) * 60
            /\ \A d \in Days :
                /\ runs[t][d].exp # -1 => runs[t][d].exp >= (d + 1) * 86400
                /\ tokens[t][d].exp # -1 => tokens[t][d].exp >= (d + 1) * 86400)

\* C25 witness: the minute counter written at the start of its bucket is
\* still at the limit in the second half of the bucket, where a check has
\* just denied.
C25_Witness ==
    /\ now = 30
    /\ rate["t1"][0] = [n |-> 2, exp |-> 120]
    /\ last.call = "check_rate_limit" /\ last.outcome = "rate_limit"

\* The workflow step an audit entry of the worker is written for.
AuditStep(action) ==
    CASE action = "classified" -> "classify"
      [] action = "draft_generated" -> "draft"
      [] action = "routed" -> "route"
      [] action = "notified" -> "notify"
      [] action = "email_sent" -> "autosend_check"
      [] action = "lead_extracted" -> "extract"
      [] action = "lead_qualified" -> "qualify"
      [] action = "crm_updated" -> "crm"
      [] action = "email_drafts_generated" -> "email_drafts"
      [] OTHER -> "none"

\* C26 as claimed: each executed workflow step writes exactly one audit
\* entry: a completed run has, for every step in its steps_completed, one
\* audit entry of the attempt for that step.
C26_OneAuditPerStep ==
    run.status = "completed" =>
        \A i \in 1 .. Len(run.steps) :
            Cardinality({j \in 1 .. Len(audit) : AuditStep(audit[j].action) = run.steps[i]}) = 1

C28_AttemptStartsFirst ==
    [][job_start =>
        /\ job'.pc = (IF job.wf = "support" THEN "classify" ELSE "extract")
        /\ run'.current_step = job'.pc
        /\ job'.steps = <<>>
        /\ job'.attempt = job.attempt + 1]_vars

\* C28 witness: a second attempt stands at classify although the first one
\* failed in the draft step, after it had classified the ticket.
C28_Witness ==
    /\ job.attempt = 2 /\ job.state = "working" /\ job.pc = "classify"
    /\ run.current_step = "classify" /\ rec.category # "null"

\* C29: estimate_cost(in, out, model) is (in * price_in + out * price_out)
\* / 10^6 rounded to 6 decimals for the prices per million tokens of 3.0 and
\* 15.0 (sonnet), 0.80 and 4.0 (haiku) and 0 (local): it is 0 for the local
\* model, 0.0105 for (1000, 500, sonnet), and a model that is not in the
\* table is priced as sonnet.  Costs are in millionths of a dollar and
\* prices in hundredths of a dollar.
C29_CostLinear ==
    quote.cost # -1 =>
        LET i == quote.input_tokens
            o == quote.output_tokens
            exact == CASE quote.model = "local_7b" -> 0
                       [] quote.model = "claude-haiku-4-5-20251001" -> i * 80 + o * 400
                       [] OTHER -> i * 300 + o * 1500 IN
        /\ 100 * quote.cost - exact <= 50
        /\ exact - 100 * quote.cost <= 50
        /\ quote.model = "local_7b" => quote.cost = 0
        /\ (i = 1000 /\ o = 500 /\ quote.model = "claude-sonnet-4-20250514")
                => quote.cost = 10500
        /\ quote.model = "gpt-4o" => quote.cost = i * 3 + o * 15

\* C29 witness: a model that is not in the table was priced for the token
\* counts of the repository's test.
C29_Witness ==
    /\ quote.model = "gpt-4o" /\ quote.input_tokens = 1000 /\ quote.output_tokens = 500
    /\ quote.cost = 10500

(***************************************************************************)
(* The router of one worker under every credential setting it can be       *)
(* constructed with (ModelRouter.__init__), the local backend disabled as  *)
(* in the default configuration.                                           *)
(***************************************************************************)
InitCredential ==
    /\ InitRedis
    /\ InitEnforcers
    /\ InitWork
    /\ \E t \in Tenants : tenant = [w \in Workers |-> IF w = "w1" THEN t ELSE "none"]
    /\ \E cred \in Credentials :
        call = [NoRoute EXCEPT !.cred = cred, !.key = ModelRouter_init(cred)]

SpecCredential == InitCredential /\ [][NextRoute]_vars

\* No credential resolves: no tenant key or one that cannot be decrypted,
\* and no platform key.
Unresolved(c) == c.encrypted \in {"none", "bad"} /\ ~(c.platform_key_mode /\ c.platform_key)

\* C31: a call_claude that is refused before the API call, because no
\* credential resolves or because the day's tokens plus the estimate exceed
\* max_tokens_per_day, raises without calling the backend and changes
\* neither the circuit record nor the day's token counter; the backend is
\* called only with a resolved credential.
C31_RefusalNotCounted ==
    /\ [][\A w \in Workers, e \in TokenArgs :
            (call_claude(w, e) /\ (Unresolved(call.cred) \/ TokensExceeded(tenant[w], e)))
                => /\ call'.stage = "raised"
                   /\ call'.exc = IF Unresolved(call.cred) THEN "ValueError" ELSE "daily_tokens"
                   /\ call'.cloud = call.cloud
                   /\ circuit' = circuit
                   /\ tokens' = tokens]_vars
    /\ [](call.stage = "api" => ~Unresolved(call.cred))
    /\ []((call.stage = "raised" /\ call.exc \in {"ValueError", "daily_tokens"})
            => call.cloud = <<>>)

\* C31 witness: a drafting task of a tenant whose key cannot be decrypted,
\* in platform key mode with no platform key set, was admitted by route()
\* and refused by call_claude.
C31_Witness ==
    /\ call.stage = "raised" /\ call.exc = "ValueError" /\ call.task = "draft_reply"
    /\ call.admitted /\ call.cloud = <<>>
    /\ call.cred.encrypted = "bad" /\ call.cred.platform_key_mode /\ ~call.cred.platform_key

\* C31 witness of the budget refusal: a call with a resolved key was
\* refused by the token check after an earlier call had used tokens.
C31_WitnessBudget ==
    /\ call.stage = "raised" /\ call.exc = "daily_tokens" /\ call.admitted
    /\ call.key /\ call.cloud = <<>>
    /\ \E t \in Tenants : Get(TokensKey(t)) >= 1

\* The changes of a circuit's state that the breaker is meant to make.
CircuitMoves ==
    {<<"closed", "open">>, <<"open", "half-open">>,
     <<"half-open", "closed">>, <<"half-open", "open">>}

\* C32: every change of a tenant's circuit state is closed -> open,
\* open -> half-open, half-open -> closed or half-open -> open; an open
\* circuit does not become closed without having been half-open.
C32_CircuitTransitions ==
    [][\A t \in Tenants :
        StateOf(circuit'[t]) # StateOf(circuit[t])
            => <<StateOf(circuit[t]), StateOf(circuit'[t])>> \in CircuitMoves]_vars

\* C33: under every interleaving of the round trips of record_failure and
\* record_success by two workers, a circuit hash in state open holds a
\* failures count of at least FAILURE_THRESHOLD.
C33_OpenHasThreshold ==
    \A t \in Tenants : StateOf(circuit[t]) = "open" => circuit[t].failures >= FAILURE_THRESHOLD

\* A check of worker w that returns without raising in this step.
Admits(w) ==
    /\ check_circuit_breaker(w) \/ check_circuit_breaker_hset(w)
    /\ last'.outcome = "ok"

\* C34: once record_failure has written state open with opened_at = t, and
\* until record_success deletes the record, no check of any worker returns
\* normally at a time up to t + CIRCUIT_TIMEOUT; a check that read an
\* earlier, timed-out open record does not turn the fresh one half-open.
C34_ReopenHolds ==
    [][\A w \in Workers :
        Admits(w) =>
            LET h == circuit'[tenant[w]] IN
            h.opened_at = -1 \/ now' - h.opened_at > CIRCUIT_TIMEOUT]_vars

\* C35: a unit's job is executed at most 1 + RETRY_MAX times; an execution
\* after the first starts only from a Run that the attempt before left
\* failed; once an attempt has left the Run completed the job is not
\* executed again and the Run stays completed; and with workers that keep
\* taking steps the job comes to rest, finished, failed or never enqueued.
C35_ProcessingTerminates ==
    /\ [](job.attempt <= 1 + RETRY_MAX)
    /\ [][(job.attempt' # job.attempt /\ job.attempt >= 1)
            => (run.status = "failed" /\ job.attempt' = job.attempt + 1 /\ job.left < RETRY_MAX)]_vars
    /\ [][run.status = "completed"
            => (job.attempt' = job.attempt /\ job.state' = "finished" /\ run' = run)]_vars
    /\ <>[](job.state \in {"none", "finished", "failed"})

\* C35 witness: the fourth execution of a job, after three failed attempts,
\* has ended with the Run completed.
C35_Witness ==
    /\ job.attempt = 1 + RETRY_MAX /\ job.left = 0
    /\ job.state = "finished" /\ run.status = "completed"

\* A step of a call that worker w makes on its tenant's enforcer.
Calls(w) ==
    \/ check_circuit_breaker(w) \/ check_circuit_breaker_hset(w)
    \/ check_rate_limit(w) \/ check_daily_runs(w)
    \/ \E e \in TokenArgs : check_daily_tokens(w, e)
    \/ record_failure(w) \/ record_failure_expire(w) \/ record_failure_hset(w)
    \/ record_success(w)
    \/ increment_rate(w) \/ increment_daily_runs(w)
    \/ \E n \in TokenArgs : add_daily_tokens(w, n)

\* The rows of tenant t are the same in the next state.
RowsKept(t) ==
    /\ circuit'[t] = circuit[t]
    /\ rate'[t] = rate[t]
    /\ runs'[t] = runs[t]
    /\ tokens'[t] = tokens[t]

\* C36: the circuit hash and the usage counters of a tenant change only in
\* a step of a call made for that tenant, never in a call for another one,
\* and each check ends as the rows of its own tenant say, whatever the
\* other tenant's rows hold.
C36_TenantIsolation ==
    /\ [][\A t \in Tenants :
            ~RowsKept(t) => \E w \in Workers : tenant[w] = t /\ Calls(w)]_vars
    /\ [][\A w \in Workers :
            LET t == tenant[w] IN
            /\ check_rate_limit(w) =>
                last'.outcome = IF rate[t][now \div 60].n >= max_items_per_minute(t)
                                THEN "rate_limit" ELSE "ok"
            /\ check_daily_runs(w) =>
                last'.outcome = IF runs[t][now \div 86400].n >= max_runs_per_day(t)
                                THEN "daily_runs" ELSE "ok"
            /\ \A e \in TokenArgs : check_daily_tokens(w, e) =>
                last'.outcome = IF tokens[t][now \div 86400].n + e > max_tokens_per_day(t)
                                THEN "daily_tokens" ELSE "ok"
            /\ (check_circuit_breaker(w) /\ pc'[w] = "idle") =>
                last'.outcome = IF circuit[t].state = "open" /\ now - circuit[t].opened_at <= 300
                                THEN "CircuitOpen" ELSE "ok"]_vars

\* C36 witness: tenant t2's rate check has just denied at its limit while
\* tenant t1, whose circuit five failures have opened, has counted more
\* items in the same minute than t2's limit allows.
C36_Witness ==
    /\ last.w = "w2" /\ last.call = "check_rate_limit" /\ last.outcome = "rate_limit"
    /\ rate["t1"][now \div 60].n = 2 /\ rate["t2"][now \div 60].n = 1
    /\ circuit["t1"].state = "open" /\ circuit["t2"].state = "none"

\* The row meets the three conditions of the auto-send check.
SendAllowed(t) ==
    /\ job.autosend
    /\ t.classification_confidence >= DEFAULT_CONFIDENCE_THRESHOLD
    /\ t.needs_human # "true"

\* C37: reply_sent becomes true, and the status becomes sent, only in the
\* auto-send check of an attempt in which the tenant has autosend_enabled,
\* the confidence is at least the threshold and needs_human is not true; a
\* ticket that the attempt classified from the static default payload or
\* from an output that is not a JSON object, or that the routing rules
\* escalated, is not sent in that attempt.
C37_AutoSendGuarded ==
    /\ [][(/\ job.wf = "support" /\ rec # <<>>
            /\ \/ rec'.reply_sent /\ ~rec.reply_sent
               \/ rec'.status = "sent" /\ rec.status # "sent")
            => (notify_ticket /\ SendAllowed(rec) /\ rec'.reply_sent /\ rec'.status = "sent")]_vars
    /\ []((job.wf = "support" /\ rec # <<>> /\ rec.status = "sent")
            => /\ SendAllowed(rec) /\ rec.reply_sent
               /\ job.out # DefaultResult.content
               /\ ParseContent(job.out).kind = "object"
               /\ rec.tags # "[auto-escalated]" /\ rec.status # "escalated")

\* C37 witness: the auto-send check of a second attempt has marked the
\* ticket sent, for a tenant with autosend_enabled and a classification
\* with confidence 0.9 that asks for no human.
C37_Witness ==
    /\ job.wf = "support" /\ rec # <<>>
    /\ rec.status = "sent" /\ rec.reply_sent /\ job.autosend /\ job.attempt = 2
    /\ job.out = <<"{", "m1", "}">>
    /\ rec.classification_confidence = 90 /\ rec.needs_human = "false"

\* A ticket whose reply_sent flag an earlier attempt set, left draft_ready by
\* an attempt that classified it from the static default payload.
C37_StaleFlag ==
    /\ job.wf = "support" /\ rec # <<>>
    /\ rec.reply_sent /\ rec.status = "draft_ready" /\ run.status = "completed"
    /\ job.out = DefaultResult.content /\ rec.needs_human = "true"

\* C38: the auto-send check of an attempt whose backend calls have all
\* succeeded and whose row meets the auto-send condition ends with the Run
\* completed, the ticket in status sent, one email_sent audit entry and
\* autosend_check as the last of steps_completed.
C38_AutoSendCompletes ==
    [][(notify_ticket /\ AutoSend(rec))
        => /\ run'.status = "completed"
           /\ rec'.status = "sent" /\ rec'.reply_sent
           /\ Cardinality({i \in DOMAIN audit' : audit'[i].action = "email_sent"}) = 1
           /\ run'.steps # <<>> /\ run'.steps[Len(run'.steps)] = "autosend_check"]_vars

\* C39: a completed support run whose routing step escalated the ticket
\* (confidence below DEFAULT_ESCALATE_BELOW, tag auto-escalated) leaves the
\* ticket with needs_human true and status escalated.
C39_EscalationKept ==
    (/\ job.wf = "support" /\ rec # <<>> /\ run.status = "completed"
     /\ rec.classification_confidence < DEFAULT_ESCALATE_BELOW
     /\ rec.tags = "[auto-escalated]")
        => (rec.needs_human = "true" /\ rec.status = "escalated")

\* A request of worker w's tenant that the handler admits.
Admitted(w) ==
    /\ ingest_support_ticket(w) \/ ingest_sales_lead(w)
    /\ Admission(tenant[w], 0) = "ok"

\* C40: a request whose job is enqueued increments the minute's item
\* counter and the day's run counter of its tenant by one each; a request
\* whose enqueue raises increments neither; no step of the worker, in a
\* first attempt or in a retry, changes either counter; and the counters
\* change in no other step than an enqueued request or the clock's.
C40_CountedOncePerUnit ==
    /\ [][\A w \in Workers :
            (Admitted(w) /\ job'.state = "queued") =>
                LET t == tenant[w] IN
                /\ rate'[t][_minute_key(now)].n = rate[t][_minute_key(now)].n + 1
                /\ runs'[t][_day_key(now)].n = runs[t][_day_key(now)].n + 1]_vars
    /\ [][\A w \in Workers :
            (Admitted(w) /\ job'.state = "none") => UNCHANGED <<rate, runs>>]_vars
    /\ [][NextWorker => UNCHANGED <<rate, runs>>]_vars
    /\ [][(rate' # rate \/ runs' # runs)
            => (now' # now \/ \E w \in Workers : Admitted(w) /\ job'.state = "queued")]_vars

\* C40 witness: the third attempt of a unit's job is running, and the
\* counters of its tenant stand at the one increment of its intake.
C40_Witness ==
    /\ job.state = "working" /\ job.attempt = 3
    /\ \E w \in Workers :
        /\ tenant[w] \in Tenants
        /\ rate[tenant[w]][_minute_key(now)].n = 1
        /\ runs[tenant[w]][_day_key(now)].n = 1
====
